---- MODULE Spec2Model ----
(***************************************************************************)
(* The collage layout engine of pixpress (utils/collage.js): the           *)
(* orchestrator collageCommand, the six layout planners and the codec      *)
(* (sharp) boundary, as a state machine.                                   *)
(*                                                                         *)
(* Numbers are JavaScript numbers restricted to the values the code can    *)
(* produce from integer options: integers, NaN and the two infinities.     *)
(* Option values and layout names are strings, modelled as sequences of    *)
(* one-character strings so that parseInt and toLowerCase do real work.    *)
(* Products with the decimal literals of the source (0.8, 0.6, 0.15, ...)  *)
(* are computed exactly, as rationals; binary floating-point rounding is   *)
(* not modelled.                                                           *)
(***************************************************************************)
EXTENDS Integers, Sequences, FiniteSets, TLC

VARIABLES
    folder,           \* number of image files found under the input pattern
    damaged,          \* the files among them that the codec cannot decode
    pc,               \* position of collageCommand / the running planner
    layoutName,       \* options.layout as the caller gave it
    imageFiles,       \* the files findImageFiles returned (ids, in order)
    selectedFiles,    \* inside findImageFiles: the selection after the shuffle
    layout,           \* result of layouts[options.layout?.toLowerCase()]
    width,            \* parsed canvas width
    height,           \* parsed canvas height
    spacing,          \* parsed spacing
    plan,             \* locals of the running planner (cell sizes, ...)
    i,                \* loop index of the running per-image loop
    compositeImages,  \* layers pushed so far, in push order
    skipped,          \* indices of the images warned about and skipped
    requests,         \* resize requests made to the codec, in order
    composited,       \* TRUE once sharp(...).composite(layers) was called
    saved,            \* TRUE once toFile wrote the output file
    err,              \* the error handed to handleError, or NoError
    entropy,          \* the sets of values Math.random() may draw from in a run
    background,       \* options.background as the caller gave it
    backgroundColor   \* the planner's local: parseColor(options.background || ...)

vars == <<folder, damaged, pc, layoutName, imageFiles, selectedFiles, layout, width, height, spacing, plan, i,
          compositeImages, skipped, requests, composited, saved, err,
          entropy, background, backgroundColor>>

\* what the caller and the file system provide
env == <<entropy, folder, damaged, layoutName, background>>

\* the validated request the planners work from
request == <<imageFiles, selectedFiles, layout, width, height, spacing>>

-----------------------------------------------------------------------------
(* Bounds of the model *)

\* most files the input folder holds in the build specification
MaxFiles == 5

\* most files the input folder holds in the validation specification
MaxFolder == 26

\* Math.random() returns k / RandDen for some k in 0 .. RandDen - 1
RandDen == 4

\* most images of a polaroid plan in the specification of the scattered
\* layouts
MaxScatter == 4

-----------------------------------------------------------------------------
(* JavaScript numbers *)

JsNaN == 2000000002
JsPosInf == 2000000001
JsNegInf == -2000000001

IsFinite(a) == a \notin {JsNaN, JsPosInf, JsNegInf}

IsInf(a) == a \in {JsPosInf, JsNegInf}

JsSign(a) ==
    IF a = JsPosInf THEN 1
    ELSE IF a = JsNegInf THEN -1
    ELSE IF a > 0 THEN 1
    ELSE IF a < 0 THEN -1
    ELSE 0

JsNeg(a) ==
    IF a = JsNaN THEN JsNaN
    ELSE IF a = JsPosInf THEN JsNegInf
    ELSE IF a = JsNegInf THEN JsPosInf
    ELSE 0 - a

\* a + b
JsAdd(a, b) ==
    IF a = JsNaN \/ b = JsNaN THEN JsNaN
    ELSE IF IsInf(a) THEN (IF IsInf(b) /\ a # b THEN JsNaN ELSE a)
    ELSE IF IsInf(b) THEN b
    ELSE a + b

\* a - b
JsSub(a, b) == JsAdd(a, JsNeg(b))

\* a * b
JsMul(a, b) ==
    IF a = JsNaN \/ b = JsNaN THEN JsNaN
    ELSE IF IsInf(a) \/ IsInf(b)
         THEN (IF JsSign(a) * JsSign(b) = 0 THEN JsNaN
               ELSE IF JsSign(a) * JsSign(b) > 0 THEN JsPosInf
               ELSE JsNegInf)
    ELSE a * b

\* the quotient a / b when it is not finite, or 0 when it is
JsDivSpecial(a, b) ==
    IF a = JsNaN \/ b = JsNaN THEN JsNaN
    ELSE IF IsInf(a) /\ IsInf(b) THEN JsNaN
    ELSE IF IsInf(a) THEN (IF JsSign(b) < 0 THEN JsNeg(a) ELSE a)
    ELSE IF IsInf(b) THEN 0
    ELSE IF a = 0 THEN JsNaN
    ELSE IF a > 0 THEN JsPosInf
    ELSE JsNegInf

\* Math.floor(a / b)
JsFloorDiv(a, b) ==
    IF IsFinite(a) /\ IsFinite(b) /\ b # 0 THEN a \div b
    ELSE JsDivSpecial(a, b)

\* Math.ceil(a / b)
JsCeilDiv(a, b) ==
    IF IsFinite(a) /\ IsFinite(b) /\ b # 0 THEN 0 - ((0 - a) \div b)
    ELSE JsDivSpecial(a, b)

\* a % b, the sign following the dividend
JsMod(a, b) ==
    IF a = JsNaN \/ b = JsNaN \/ IsInf(a) \/ b = 0 THEN JsNaN
    ELSE IF IsInf(b) THEN a
    ELSE LET m == IF b < 0 THEN 0 - b ELSE b
         IN  IF a >= 0 THEN a % m ELSE 0 - ((0 - a) % m)

\* a < b
JsLt(a, b) ==
    /\ a # JsNaN
    /\ b # JsNaN
    /\ a # b
    /\ \/ a = JsNegInf
       \/ b = JsPosInf
       \/ IsFinite(a) /\ IsFinite(b) /\ a < b

\* a > b
JsGt(a, b) == JsLt(b, a)

\* Math.min(a, b)
JsMin(a, b) ==
    IF a = JsNaN \/ b = JsNaN THEN JsNaN ELSE IF JsLt(b, a) THEN b ELSE a

\* Math.max(a, b)
JsMax(a, b) ==
    IF a = JsNaN \/ b = JsNaN THEN JsNaN ELSE IF JsLt(a, b) THEN b ELSE a

\* Math.ceil(Math.sqrt(n)) for an integer n >= 0
CeilSqrt(n) == CHOOSE k \in 0..n : k * k >= n /\ (k = 0 \/ (k - 1) * (k - 1) < n)

\* a value the codec accepts as a pixel size: a positive integer
PositiveInt(a) == IsFinite(a) /\ a > 0

-----------------------------------------------------------------------------
(* Strings *)

Digits == <<"0", "1", "2", "3", "4", "5", "6", "7", "8", "9">>

IsDigit(c) == \E d \in 1..10 : Digits[d] = c

DigitValue(c) == (CHOOSE d \in 1..10 : Digits[d] = c) - 1

\* the value of the longest prefix of digits of s, after the digits acc
RECURSIVE ParseDigits(_, _, _)
ParseDigits(s, k, acc) ==
    IF k > Len(s) \/ ~IsDigit(s[k]) THEN acc
    ELSE ParseDigits(s, k + 1, 10 * acc + DigitValue(s[k]))

\* parseInt(s) for a string s: optional sign, then leading decimal digits
ParseInt(s) ==
    LET neg == Len(s) > 0 /\ s[1] = "-"
        first == IF Len(s) > 0 /\ s[1] \in {"-", "+"} THEN 2 ELSE 1
    IN  IF first > Len(s) \/ ~IsDigit(s[first]) THEN JsNaN
        ELSE IF neg THEN 0 - ParseDigits(s, first, 0)
        ELSE ParseDigits(s, first, 0)

\* the absent option (undefined); like the empty string it is falsy
Absent == <<>>

\* parseInt(option || fallback) for a numeric fallback
ParseIntOr(option, fallback) ==
    IF option = Absent THEN fallback ELSE ParseInt(option)

Upper == <<"A", "B", "C", "D", "E", "F", "G", "H", "I", "J", "K", "L", "M",
           "N", "O", "P", "Q", "R", "S", "T", "U", "V", "W", "X", "Y", "Z">>

Lower == <<"a", "b", "c", "d", "e", "f", "g", "h", "i", "j", "k", "l", "m",
           "n", "o", "p", "q", "r", "s", "t", "u", "v", "w", "x", "y", "z">>

LowerChar(c) ==
    IF \E k \in 1..26 : Upper[k] = c
    THEN Lower[CHOOSE k \in 1..26 : Upper[k] = c]
    ELSE c

\* s.toLowerCase()
ToLowerCase(s) == [k \in DOMAIN s |-> LowerChar(s[k])]

Str_grid == <<"g", "r", "i", "d">>
Str_strip == <<"s", "t", "r", "i", "p">>
Str_polaroid == <<"p", "o", "l", "a", "r", "o", "i", "d">>
Str_mosaic == <<"m", "o", "s", "a", "i", "c">>
Str_filmstrip == <<"f", "i", "l", "m", "s", "t", "r", "i", "p">>
Str_magazine == <<"m", "a", "g", "a", "z", "i", "n", "e">>
Str_constructor == <<"c", "o", "n", "s", "t", "r", "u", "c", "t", "o", "r">>
Str_proto == <<"_", "_", "p", "r", "o", "t", "o", "_", "_">>

-----------------------------------------------------------------------------
(* The layout registry *)

\* the object literal `layouts`: its own keys and, per key, the fields read
layouts ==
    [k \in {Str_grid, Str_strip, Str_polaroid, Str_mosaic, Str_filmstrip,
            Str_magazine} |->
        CASE k = Str_grid -> [name |-> "grid", minImages |-> 4, maxImages |-> 25]
          [] k = Str_strip -> [name |-> "strip", minImages |-> 2, maxImages |-> 10]
          [] k = Str_polaroid ->
                 [name |-> "polaroid", minImages |-> 2, maxImages |-> 12]
          [] k = Str_mosaic -> [name |-> "mosaic", minImages |-> 3, maxImages |-> 20]
          [] k = Str_filmstrip ->
                 [name |-> "filmstrip", minImages |-> 3, maxImages |-> 8]
          [] k = Str_magazine ->
                 [name |-> "magazine", minImages |-> 3, maxImages |-> 8]]

\* the value of an undefined layout, and of a field an object does not have:
\* in a numeric comparison undefined is NaN
Undefined == [truthy |-> FALSE, name |-> "undefined",
              minImages |-> JsNaN, maxImages |-> JsNaN]

\* the properties every object literal inherits from Object.prototype whose
\* names are all lower case: layouts.constructor is the function Object,
\* whose name is "Object"; layouts.__proto__ is Object.prototype, with no name
InheritedProperty(key) ==
    IF key = Str_constructor
    THEN [truthy |-> TRUE, name |-> "Object",
          minImages |-> JsNaN, maxImages |-> JsNaN]
    ELSE IF key = Str_proto
    THEN [truthy |-> TRUE, name |-> "undefined",
          minImages |-> JsNaN, maxImages |-> JsNaN]
    ELSE Undefined

\* layouts[key]: an own property, else an inherited one, else undefined
LayoutProperty(key) ==
    IF key \in DOMAIN layouts
    THEN [truthy |-> TRUE, name |-> layouts[key].name,
          minImages |-> layouts[key].minImages,
          maxImages |-> layouts[key].maxImages]
    ELSE InheritedProperty(key)

\* layouts[options.layout?.toLowerCase()]
LookupLayout(option) ==
    IF option = Absent THEN Undefined ELSE LayoutProperty(ToLowerCase(option))

-----------------------------------------------------------------------------
(* Errors *)

NoError == [kind |-> "none", bound |-> 0, actual |-> 0]

Error(kind) == [kind |-> kind, bound |-> 0, actual |-> 0]

\* the two messages of the image-count check name the bound and the count
CountError(bound, actual) ==
    [kind |-> "ImageCountOutOfBounds", bound |-> bound, actual |-> actual]

\* throw: control passes to the catch of collageCommand, which reports it
Throw(e) ==
    /\ err' = e
    /\ pc' = "done"

-----------------------------------------------------------------------------
(* Inputs *)

\* options.layout as given on the command line
LayoutOptions ==
    { Str_grid,
      <<"S", "t", "r", "i", "p">>,
      <<"P", "O", "L", "A", "R", "O", "I", "D">>,
      Str_mosaic,
      <<"F", "i", "l", "m", "S", "t", "r", "i", "p">>,
      Str_magazine,
      <<"t", "i", "l", "e", "s">>,
      Str_constructor,
      Absent }

\* options.maxFiles
MaxFilesOptions == {Absent, <<"2">>}

\* options.width
WidthOptions == {<<"1", "9", "9">>, <<"2", "0", "0">>, <<"9", "0", "0">>,
                 <<"8", "0", "0", "1">>, <<"w", "i", "d", "e">>}

\* options.height
HeightOptions == {<<"1", "5", "0">>, <<"3", "0", "0">>, <<"9", "0", "0">>}

\* options.spacing
SpacingOptions == {Absent, <<"0">>, <<"-", "1", "0">>, <<"6", "0">>}

\* options.cols
ColsOptions == {Absent, <<"0">>, <<"2">>, <<"5">>}

\* options.direction
DirectionOptions == {Absent, <<"v", "e", "r", "t", "i", "c", "a", "l">>}

\* options.format
FormatOptions == {Absent, <<"P", "N", "G">>, <<"g", "i", "f">>}

-----------------------------------------------------------------------------
(* findImageFiles *)

\* files.slice(0, maxFiles) of a listing of n files, as the listed positions
Slice(n, maxFiles) ==
    IF maxFiles = JsNaN THEN <<>>
    ELSE IF maxFiles < 0
    THEN [k \in 1..(IF n + maxFiles > 0 THEN n + maxFiles ELSE 0) |-> k]
    ELSE [k \in 1..(IF maxFiles < n THEN maxFiles ELSE n) |-> k]

\* the local selectedFiles while findImageFiles is not running
NoSelection == [shuffle |-> FALSE, order |-> <<>>]

\* the results of the shuffle loop from index i (0-based) down to 1, each
\* iteration swapping files[i] with files[j], j = Math.floor(Math.random() *
\* (i + 1)) for a draw k / RandDen of the source
RECURSIVE Shuffled(_, _, _)
Shuffled(files, index, source) ==
    IF index < 1 THEN {files}
    ELSE UNION {LET j == (k * (index + 1)) \div RandDen
                IN  Shuffled([files EXCEPT ![index + 1] = files[j + 1],
                                           ![j + 1] = files[index + 1]],
                             index - 1, source) : k \in source}

\* files.sort(by basename): the files are numbered in the order of their
\* basenames, so the k-th file of the result is the k-th smallest id
SortByBasename(files) ==
    [k \in 1..Len(files) |->
        CHOOSE id \in {files[n] : n \in 1..Len(files)} :
            Cardinality({n \in 1..Len(files) : files[n] <= id}) = k]

\* findImageFiles: scan, slice, shuffle when asked to, and return the sorted
\* selection; selectedFiles keeps the order the shuffle left for as long as
\* the result is on its way to collageCommand
FindImageFiles ==
    /\ pc = "find"
    /\ \E maxFilesOption \in MaxFilesOptions, shuffle \in BOOLEAN, source \in entropy :
          IF folder = 0
          THEN /\ Throw(Error("NoFilesFound"))
               /\ UNCHANGED <<imageFiles, selectedFiles>>
          ELSE LET sliced == Slice(folder, ParseIntOr(maxFilesOption, folder))
               IN  /\ \E order \in (IF shuffle
                                     THEN Shuffled(sliced, Len(sliced) - 1, source)
                                     ELSE {sliced}) :
                         /\ selectedFiles' = [shuffle |-> shuffle, order |-> order]
                         /\ imageFiles' = SortByBasename(order)
                   /\ pc' = "lookup"
                   /\ UNCHANGED err
    /\ UNCHANGED <<env, backgroundColor, layout, width, height, spacing, plan, i,
                   compositeImages, skipped, requests, composited, saved>>

-----------------------------------------------------------------------------
(* collageCommand: validation *)

ResolveLayout ==
    /\ pc = "lookup"
    /\ layout' = LookupLayout(layoutName)
    /\ selectedFiles' = NoSelection
    /\ IF ~layout'.truthy
       THEN Throw(Error("InvalidLayout"))
       ELSE /\ pc' = "count"
            /\ UNCHANGED err
    /\ UNCHANGED <<env, backgroundColor, imageFiles, width, height, spacing, plan,
                   i, compositeImages, skipped, requests, composited, saved>>

\* a faulty count check that has lost its second test
CheckImageCountMinOnly ==
    /\ pc = "count"
    /\ IF JsLt(Len(imageFiles), layout.minImages)
       THEN Throw(CountError(layout.minImages, Len(imageFiles)))
       ELSE /\ pc' = "parse"
            /\ UNCHANGED err
    /\ UNCHANGED <<env, backgroundColor, imageFiles, selectedFiles, layout, width, height,
                   spacing, plan, i, compositeImages, skipped, requests,
                   composited, saved>>

CheckImageCount ==
    /\ pc = "count"
    /\ IF JsLt(Len(imageFiles), layout.minImages)
       THEN Throw(CountError(layout.minImages, Len(imageFiles)))
       ELSE IF JsGt(Len(imageFiles), layout.maxImages)
       THEN Throw(CountError(layout.maxImages, Len(imageFiles)))
       ELSE /\ pc' = "parse"
            /\ UNCHANGED err
    /\ UNCHANGED <<env, backgroundColor, imageFiles, selectedFiles, layout, width, height,
                   spacing, plan, i, compositeImages, skipped, requests,
                   composited, saved>>

\* the canvas check of collageCommand
DimensionsRejected(w, h) ==
    JsLt(w, 200) \/ JsGt(w, 8000) \/ JsLt(h, 200) \/ JsGt(h, 8000)

\* the layouts the switch of collageCommand dispatches on
Implemented == {"grid", "strip", "polaroid", "mosaic", "filmstrip", "magazine"}

\* parse the dimensions, validate them, and dispatch on layout.name
ParseDimensions ==
    /\ pc = "parse"
    /\ \E w \in WidthOptions, h \in HeightOptions, s \in SpacingOptions :
          /\ width' = ParseIntOr(w, 1920)
          /\ height' = ParseIntOr(h, 1080)
          /\ spacing' = ParseIntOr(s, 10)
    /\ IF DimensionsRejected(width', height')
       THEN Throw(Error("CanvasOutOfRange"))
       ELSE IF layout.name \notin Implemented
       THEN Throw(Error("LayoutNotImplemented"))
       ELSE /\ pc' = layout.name
            /\ UNCHANGED err
    /\ UNCHANGED <<env, backgroundColor, imageFiles, selectedFiles, layout, plan, i,
                   compositeImages, skipped, requests, composited, saved>>
-----------------------------------------------------------------------------
(* parseColor *)

Color(r, g, b) == [r |-> r, g |-> g, b |-> b]

\* the local backgroundColor before parseColor has run
NoColor == [none |-> TRUE]

\* s.trim(), for the blank as the only white space
RECURSIVE Trim(_)
Trim(s) ==
    IF Len(s) > 0 /\ s[1] = " " THEN Trim(Tail(s))
    ELSE IF Len(s) > 0 /\ s[Len(s)] = " " THEN Trim(SubSeq(s, 1, Len(s) - 1))
    ELSE s

namedColors ==
    [k \in {<<"w", "h", "i", "t", "e">>,
            <<"b", "l", "a", "c", "k">>,
            <<"g", "r", "a", "y">>,
            <<"g", "r", "e", "y">>,
            <<"r", "e", "d">>,
            <<"g", "r", "e", "e", "n">>,
            <<"b", "l", "u", "e">>,
            <<"y", "e", "l", "l", "o", "w">>,
            <<"m", "a", "g", "e", "n", "t", "a">>,
            <<"c", "y", "a", "n">>} |->
        CASE k = <<"w", "h", "i", "t", "e">> -> Color(255, 255, 255)
          [] k = <<"b", "l", "a", "c", "k">> -> Color(0, 0, 0)
          [] k = <<"g", "r", "a", "y">> -> Color(128, 128, 128)
          [] k = <<"g", "r", "e", "y">> -> Color(128, 128, 128)
          [] k = <<"r", "e", "d">> -> Color(255, 0, 0)
          [] k = <<"g", "r", "e", "e", "n">> -> Color(0, 255, 0)
          [] k = <<"b", "l", "u", "e">> -> Color(0, 0, 255)
          [] k = <<"y", "e", "l", "l", "o", "w">> -> Color(255, 255, 0)
          [] k = <<"m", "a", "g", "e", "n", "t", "a">> -> Color(255, 0, 255)
          [] k = <<"c", "y", "a", "n">> -> Color(0, 255, 255)]

HexDigits == <<"0", "1", "2", "3", "4", "5", "6", "7", "8", "9",
               "a", "b", "c", "d", "e", "f">>

IsHexDigit(c) == \E d \in 1..16 : HexDigits[d] = LowerChar(c)

\* the value of the longest prefix of hex digits of s from k on, after acc
RECURSIVE ParseHexDigits(_, _, _)
ParseHexDigits(s, k, acc) ==
    IF k > Len(s) \/ ~IsHexDigit(s[k]) THEN acc
    ELSE ParseHexDigits(s, k + 1,
             16 * acc + (CHOOSE d \in 1..16 : HexDigits[d] = LowerChar(s[k])) - 1)

\* parseInt(s, 16): leading blanks, an optional sign, an optional 0x, then
\* the leading hex digits; NaN when there is none
ParseIntHex(s) ==
    LET t == IF Len(s) > 0 /\ s[1] = " " THEN Trim(s) ELSE s
        neg == Len(t) > 0 /\ t[1] = "-"
        signed == IF Len(t) > 0 /\ t[1] \in {"-", "+"} THEN 2 ELSE 1
        first == IF Len(t) > signed /\ t[signed] = "0" /\ t[signed + 1] \in {"x", "X"}
                 THEN signed + 2 ELSE signed
    IN  IF first > Len(t) \/ ~IsHexDigit(t[first]) THEN JsNaN
        ELSE IF neg THEN 0 - ParseHexDigits(t, first, 0)
        ELSE ParseHexDigits(t, first, 0)

\* the index after the longest run of digits (\d+), of blanks (\s*), from k
RECURSIVE RunEnd(_, _, _)
RunEnd(s, k, digits) ==
    IF k <= Len(s) /\ (IF digits THEN IsDigit(s[k]) ELSE s[k] = " ")
    THEN RunEnd(s, k + 1, digits) ELSE k

\* the groups of /rgb\((\d+),\s*(\d+),\s*(\d+)\)/ matched at position p of
\* s, as a set: empty when the pattern does not match there
RgbMatchAt(s, p) ==
    LET r1 == p + 4
        r2 == RunEnd(s, r1, TRUE)
        g1 == RunEnd(s, r2 + 1, FALSE)
        g2 == RunEnd(s, g1, TRUE)
        b1 == RunEnd(s, g2 + 1, FALSE)
        b2 == RunEnd(s, b1, TRUE)
    IN  IF /\ p + 3 <= Len(s)
           /\ SubSeq(s, p, p + 3) = <<"r", "g", "b", "(">>
           /\ r2 > r1 /\ r2 <= Len(s) /\ s[r2] = ","
           /\ g2 > g1 /\ g2 <= Len(s) /\ s[g2] = ","
           /\ b2 > b1 /\ b2 <= Len(s) /\ s[b2] = ")"
        THEN {<<SubSeq(s, r1, r2 - 1), SubSeq(s, g1, g2 - 1), SubSeq(s, b1, b2 - 1)>>}
        ELSE {}

\* color.match(...): the groups of the leftmost match, as a set
RgbMatch(s) ==
    LET starts == {p \in 1..Len(s) : RgbMatchAt(s, p) # {}}
    IN  IF starts = {} THEN {}
        ELSE RgbMatchAt(s, CHOOSE p \in starts : \A q \in starts : p <= q)

\* Math.min(255, Math.max(0, parseInt(group)))
Channel(group) == JsMin(255, JsMax(0, ParseInt(group)))

\* parseColor(colorStr). A key that namedColors only inherits from
\* Object.prototype is truthy as well and is returned as it is: it has no
\* r, g, b, and as a number undefined is NaN
ParseColor(colorStr) ==
    LET Parsed(color) ==
            LET hex == Tail(color)
            IN  IF color \in DOMAIN namedColors THEN namedColors[color]
                ELSE IF InheritedProperty(color).truthy THEN Color(JsNaN, JsNaN, JsNaN)
                ELSE IF Len(color) > 0 /\ color[1] = "#" /\ Len(hex) = 3
                THEN Color(ParseIntHex(<<hex[1], hex[1]>>), ParseIntHex(<<hex[2], hex[2]>>),
                           ParseIntHex(<<hex[3], hex[3]>>))
                ELSE IF Len(color) > 0 /\ color[1] = "#" /\ Len(hex) = 6
                THEN Color(ParseIntHex(SubSeq(hex, 1, 2)), ParseIntHex(SubSeq(hex, 3, 4)),
                           ParseIntHex(SubSeq(hex, 5, 6)))
                ELSE IF RgbMatch(color) # {}
                THEN LET groups == CHOOSE m \in RgbMatch(color) : TRUE
                     IN  Color(Channel(groups[1]), Channel(groups[2]), Channel(groups[3]))
                ELSE Color(255, 255, 255)
    \* const color = colorStr.toLowerCase().trim(): computed once, then parsed
    IN  CHOOSE parsed \in {Parsed(color) : color \in {Trim(ToLowerCase(colorStr))}} : TRUE

\* options.background || fallback
BackgroundOr(fallback) == IF background = Absent THEN fallback ELSE background

-----------------------------------------------------------------------------
(* The codec boundary (sharp) *)

ImageLayer(index, left, top, w, h) ==
    [kind |-> "image", index |-> index, left |-> left, top |-> top,
     width |-> w, height |-> h]

\* a layer the planner draws itself (filmstrip band, perforation)
Decoration(left, top, w, h) ==
    [kind |-> "decoration", index |-> -1, left |-> left, top |-> top,
     width |-> w, height |-> h]

\* a faulty per-image try block that puts the new layer under the others
\* (unshift instead of push)
TryRenderUnderneath(index, w, h, left, top) ==
    /\ requests' = Append(requests, [index |-> index, width |-> w, height |-> h])
    /\ IF imageFiles[index + 1] \notin damaged /\ PositiveInt(w) /\ PositiveInt(h)
       THEN /\ compositeImages' =
                  <<ImageLayer(index, left, top, w, h)>> \o compositeImages
            /\ UNCHANGED skipped
       ELSE /\ skipped' = Append(skipped, index)
            /\ UNCHANGED compositeImages

\* a faulty per-image try block: its catch swallows the failure without a
\* warning, so the skip leaves no record
TryRenderSilently(index, w, h, left, top) ==
    /\ requests' = Append(requests, [index |-> index, width |-> w, height |-> h])
    /\ IF imageFiles[index + 1] \notin damaged /\ PositiveInt(w) /\ PositiveInt(h)
       THEN /\ compositeImages' =
                  Append(compositeImages, ImageLayer(index, left, top, w, h))
            /\ UNCHANGED skipped
       ELSE UNCHANGED <<skipped, compositeImages>>

\* the body of a per-image try block: sharp(file).resize(w, h)....toBuffer()
\* and the push; resize rejects a size that is not a positive integer, and
\* toBuffer fails on a file that cannot be decoded; the catch warns and skips
TryRender(index, w, h, left, top) ==
    /\ requests' = Append(requests, [index |-> index, width |-> w, height |-> h])
    /\ IF imageFiles[index + 1] \notin damaged /\ PositiveInt(w) /\ PositiveInt(h)
       THEN /\ compositeImages' =
                  Append(compositeImages, ImageLayer(index, left, top, w, h))
            /\ UNCHANGED skipped
       ELSE /\ skipped' = Append(skipped, index)
            /\ UNCHANGED compositeImages

\* sharp({create: {width, height, ...}}) accepts positive integers only, and
\* composite(layers) accepts integer offsets only
CompositeAccepts(w, h, layers) ==
    /\ PositiveInt(w)
    /\ PositiveInt(h)
    /\ \A k \in 1..Len(layers) : IsFinite(layers[k].left) /\ IsFinite(layers[k].top)

\* return sharp({create: ...}).composite(compositeImages)
ReturnComposite ==
    IF CompositeAccepts(width, height, compositeImages)
    THEN /\ composited' = TRUE
         /\ pc' = "encode"
         /\ UNCHANGED err
    ELSE /\ Throw(Error("CodecError"))
         /\ UNCHANGED composited

-----------------------------------------------------------------------------
(* createGridLayout *)

GridCols(imageCount, colsOption) == ParseIntOr(colsOption, CeilSqrt(imageCount))

GridRows(imageCount, cols) == JsCeilDiv(imageCount, cols)

GridCellWidth(canvasWidth, sp, cols) ==
    JsFloorDiv(JsSub(canvasWidth, JsMul(sp, JsAdd(cols, 1))), cols)

GridCellHeight(canvasHeight, sp, rows) ==
    JsFloorDiv(JsSub(canvasHeight, JsMul(sp, JsAdd(rows, 1))), rows)

\* a faulty size check that looks at the width alone
GridTooSmallWidthOnly(cellWidth, cellHeight) == JsLt(cellWidth, 50)

\* the size check of the grid planner
GridTooSmall(cellWidth, cellHeight) == JsLt(cellWidth, 50) \/ JsLt(cellHeight, 50)

\* a faulty left offset that steps by row instead of by column
GridLeftByRow(index, cols, cellWidth, sp) ==
    JsAdd(sp, JsMul(JsFloorDiv(index, cols), JsAdd(cellWidth, sp)))

GridLeft(index, cols, cellWidth, sp) ==
    JsAdd(sp, JsMul(JsMod(index, cols), JsAdd(cellWidth, sp)))

\* a faulty top offset that forgets the gap between rows
GridTopWithoutGap(index, cols, cellHeight, sp) ==
    JsAdd(sp, JsMul(JsFloorDiv(index, cols), cellHeight))

GridTop(index, cols, cellHeight, sp) ==
    JsAdd(sp, JsMul(JsFloorDiv(index, cols), JsAdd(cellHeight, sp)))

\* the planner up to its loop: the cell sizes and the size check
CreateGridLayout ==
    /\ pc = "grid"
    /\ \E colsOption \in ColsOptions :
          LET cols == GridCols(Len(imageFiles), colsOption)
              rows == GridRows(Len(imageFiles), cols)
          IN  plan' = [colsOption |-> colsOption, cols |-> cols, rows |-> rows,
                       cellWidth |-> GridCellWidth(width, spacing, cols),
                       cellHeight |-> GridCellHeight(height, spacing, rows)]
    /\ IF GridTooSmall(plan'.cellWidth, plan'.cellHeight)
       THEN /\ Throw(Error("CanvasTooSmall"))
            /\ UNCHANGED backgroundColor
       ELSE /\ backgroundColor' =
                  ParseColor(BackgroundOr(<<"#", "F", "F", "F", "F", "F", "F">>))
            /\ pc' = "grid_loop"
            /\ UNCHANGED err
    /\ i' = 0
    /\ UNCHANGED <<env, imageFiles, selectedFiles, layout, width, height,
                   spacing, compositeImages, skipped, requests, composited,
                   saved>>

\* a faulty grid loop that walks the images from the last to the first
GridImageDescending ==
    /\ pc = "grid_loop"
    /\ i < Len(imageFiles)
    /\ TryRender(Len(imageFiles) - 1 - i, plan.cellWidth, plan.cellHeight,
                    GridLeft(i, plan.cols, plan.cellWidth, spacing),
                    GridTop(i, plan.cols, plan.cellHeight, spacing))
    /\ i' = i + 1
    /\ UNCHANGED <<env, backgroundColor, pc, imageFiles, selectedFiles, layout, width, height,
                   spacing, plan, composited, saved, err>>

\* a faulty grid loop that packs the images: the cell is chosen by the number
\* of layers pushed so far, so the image after a skipped one moves into its cell
GridImagePacked ==
    /\ pc = "grid_loop"
    /\ i < Len(imageFiles)
    /\ TryRender(i, plan.cellWidth, plan.cellHeight,
                    GridLeft(Len(compositeImages), plan.cols, plan.cellWidth, spacing),
                    GridTop(Len(compositeImages), plan.cols, plan.cellHeight, spacing))
    /\ i' = i + 1
    /\ UNCHANGED <<env, backgroundColor, pc, imageFiles, selectedFiles, layout, width, height,
                   spacing, plan, composited, saved, err>>

\* one iteration of the per-image loop
GridImage ==
    /\ pc = "grid_loop"
    /\ i < Len(imageFiles)
    /\ TryRender(i, plan.cellWidth, plan.cellHeight,
                    GridLeft(i, plan.cols, plan.cellWidth, spacing),
                    GridTop(i, plan.cols, plan.cellHeight, spacing))
    /\ i' = i + 1
    /\ UNCHANGED <<env, backgroundColor, pc, imageFiles, selectedFiles, layout, width, height,
                   spacing, plan, composited, saved, err>>

\* after the loop: the empty check, then the canvas and composite
GridFinish ==
    /\ pc = "grid_loop"
    /\ i = Len(imageFiles)
    /\ IF Len(compositeImages) = 0
       THEN /\ Throw(Error("NoValidImages"))
            /\ UNCHANGED composited
       ELSE ReturnComposite
    /\ UNCHANGED <<env, backgroundColor, imageFiles, selectedFiles, layout, width, height,
                   spacing, plan, i, compositeImages, skipped, requests, saved>>

-----------------------------------------------------------------------------
(* createStripLayout *)

\* options.direction === "vertical"
IsVertical(directionOption) ==
    directionOption = <<"v", "e", "r", "t", "i", "c", "a", "l">>

\* a faulty image width that rounds the horizontal share up
StripImageWidthRoundedUp(isVertical, canvasWidth, sp, imageCount) ==
    IF isVertical
    THEN JsSub(canvasWidth, JsMul(2, sp))
    ELSE JsCeilDiv(JsSub(canvasWidth, JsMul(sp, imageCount + 1)), imageCount)

StripImageWidth(isVertical, canvasWidth, sp, imageCount) ==
    IF isVertical
    THEN JsSub(canvasWidth, JsMul(2, sp))
    ELSE JsFloorDiv(JsSub(canvasWidth, JsMul(sp, imageCount + 1)), imageCount)

StripImageHeight(isVertical, canvasHeight, sp, imageCount) ==
    IF isVertical
    THEN JsFloorDiv(JsSub(canvasHeight, JsMul(sp, imageCount + 1)), imageCount)
    ELSE JsSub(canvasHeight, JsMul(2, sp))

StripTooSmall(imageWidth, imageHeight) ==
    JsLt(imageWidth, 50) \/ JsLt(imageHeight, 50)

\* a faulty left offset that forgets the gap between neighbours
StripLeftWithoutGap(index, isVertical, imageWidth, sp) ==
    IF isVertical THEN sp ELSE JsAdd(sp, JsMul(index, imageWidth))

StripLeft(index, isVertical, imageWidth, sp) ==
    IF isVertical THEN sp ELSE JsAdd(sp, JsMul(index, JsAdd(imageWidth, sp)))

StripTop(index, isVertical, imageHeight, sp) ==
    IF isVertical THEN JsAdd(sp, JsMul(index, JsAdd(imageHeight, sp))) ELSE sp

CreateStripLayout ==
    /\ pc = "strip"
    /\ backgroundColor' = ParseColor(BackgroundOr(<<"#", "F", "F", "F", "F", "F", "F">>))
    /\ \E directionOption \in DirectionOptions :
          LET isVertical == IsVertical(directionOption)
              n == Len(imageFiles)
          IN  plan' = [isVertical |-> isVertical,
                       imageWidth |-> StripImageWidth(isVertical, width, spacing, n),
                       imageHeight |->
                           StripImageHeight(isVertical, height, spacing, n)]
    /\ IF StripTooSmall(plan'.imageWidth, plan'.imageHeight)
       THEN Throw(Error("CanvasTooSmall"))
       ELSE /\ pc' = "strip_loop"
            /\ UNCHANGED err
    /\ i' = 0
    /\ UNCHANGED <<env, request, compositeImages, skipped, requests, composited,
                   saved>>

\* a faulty strip iteration without the try block: a failing image ends the
\* build
StripImageUncaught ==
    /\ pc = "strip_loop"
    /\ i < Len(imageFiles)
    /\ TryRender(i, plan.imageWidth, plan.imageHeight,
                    StripLeft(i, plan.isVertical, plan.imageWidth, spacing),
                    StripTop(i, plan.isVertical, plan.imageHeight, spacing))
    /\ i' = i + 1
    /\ IF Len(skipped') > Len(skipped)
       THEN Throw(Error("CodecError"))
       ELSE UNCHANGED <<pc, err>>
    /\ UNCHANGED <<env, backgroundColor, request, plan, composited, saved>>

StripImage ==
    /\ pc = "strip_loop"
    /\ i < Len(imageFiles)
    /\ TryRender(i, plan.imageWidth, plan.imageHeight,
                    StripLeft(i, plan.isVertical, plan.imageWidth, spacing),
                    StripTop(i, plan.isVertical, plan.imageHeight, spacing))
    /\ i' = i + 1
    /\ UNCHANGED <<env, backgroundColor, request, pc, plan, composited, saved, err>>

\* after the loop the strip planner returns the composite, whatever was pushed
StripFinish ==
    /\ pc = "strip_loop"
    /\ i = Len(imageFiles)
    /\ ReturnComposite
    /\ UNCHANGED <<env, backgroundColor, request, plan, i, compositeImages, skipped, requests,
                   saved>>

-----------------------------------------------------------------------------
(* createPolaroidLayout and generateNonOverlappingPosition *)

maxAttempts == 100

PolaroidMargin == 50

\* Math.max(150, Math.min(300, Math.floor(baseSize * 0.8))), where
\* baseSize = Math.min(canvasWidth, canvasHeight) / Math.ceil(Math.sqrt(n))
PolaroidSize(canvasWidth, canvasHeight, imageCount) ==
    JsMax(150, JsMin(300,
        JsFloorDiv(JsMul(4, JsMin(canvasWidth, canvasHeight)),
                   5 * CeilSqrt(imageCount))))

\* Math.floor(polaroidSize * 0.75)
PolaroidImageSize(polaroidSize) == JsFloorDiv(JsMul(3, polaroidSize), 4)

\* Math.floor((polaroidSize - imageSize) / 2)
PolaroidBorder(polaroidSize) ==
    JsFloorDiv(JsSub(polaroidSize, PolaroidImageSize(polaroidSize)), 2)

\* a faulty sample whose range forgets the size of the polaroid
SampleIgnoringSize(k, canvas, size, margin) == margin * RandDen + k * (canvas - 2 * margin)

\* margin + Math.random() * (canvas - size - 2 * margin) for the draw
\* k / RandDen, as a numerator over RandDen
Sample(k, canvas, size, margin) == margin * RandDen + k * (canvas - size - 2 * margin)

Abs(a) == IF a < 0 THEN 0 - a ELSE a

\* a faulty overlap test that looks at the most recent position only
OverlapsLastOnly(x, y, size, usedPositions) ==
    /\ Len(usedPositions) > 0
    /\ Abs(x - usedPositions[Len(usedPositions)].x * RandDen) < (size + 20) * RandDen
    /\ Abs(y - usedPositions[Len(usedPositions)].y * RandDen) < (size + 20) * RandDen

\* usedPositions.some(...) for the sample (x, y), both over RandDen
Overlaps(x, y, size, usedPositions) ==
    \E k \in 1..Len(usedPositions) :
        /\ Abs(x - usedPositions[k].x * RandDen) < (size + 20) * RandDen
        /\ Abs(y - usedPositions[k].y * RandDen) < (size + 20) * RandDen

\* Math.round(x) for x a numerator over RandDen
Round(x) == (2 * x + RandDen) \div (2 * RandDen)

\* the slot of the grid fallback
FallbackPosition(size, usedPositions, margin) ==
    LET gridCols == CeilSqrt(Len(usedPositions) + 1)
        gridIndex == Len(usedPositions)
    IN  [x |-> (gridIndex % gridCols) * (size + 20) + margin,
         y |-> (gridIndex \div gridCols) * (size + 20) + margin,
         via |-> "fallback", draw |-> <<>>]

\* the values of `attempts` at which the loop condition is evaluated: the
\* loop is entered with 0, and comes back with attempts + 1 only after a
\* rejected sample
AttemptsReached(rejectable) ==
    {a \in 0..maxAttempts : a = 0 \/ rejectable}

\* a faulty loop without the fallback: it can only return an accepted sample
ReturnedAtWithoutFallback(attempts, accepted, fallback) == accepted

\* what the loop can return when it is at `attempts`: inside the loop an
\* accepted sample, and once attempts < maxAttempts fails, the fallback
ReturnedAt(attempts, accepted, fallback) ==
    IF attempts < maxAttempts THEN accepted ELSE {fallback}

\* the positions generateNonOverlappingPosition can return when Math.random()
\* draws from `source`; `via` and `draw` are not fields of the object
\* returned: they record the path taken and the two draws of the sample that
\* was accepted
GenerateNonOverlappingPosition(canvasWidth, canvasHeight, size, usedPositions, margin, source) ==
    IF ~(IsFinite(canvasWidth) /\ IsFinite(canvasHeight) /\ IsFinite(size))
    THEN {[x |-> JsNaN, y |-> JsNaN, via |-> "random", draw |-> d] :
              d \in source \X source}
    ELSE LET samples == source \X source
             rejected ==
                 {d \in samples :
                     Overlaps(Sample(d[1], canvasWidth, size, margin),
                              Sample(d[2], canvasHeight, size, margin),
                              size, usedPositions)}
             accepted ==
                 {[x |-> Round(Sample(d[1], canvasWidth, size, margin)),
                   y |-> Round(Sample(d[2], canvasHeight, size, margin)),
                   via |-> "random", draw |-> d] : d \in samples \ rejected}
         IN  UNION {ReturnedAt(a, accepted,
                               FallbackPosition(size, usedPositions, margin)) :
                        a \in AttemptsReached(rejected # {})}

CreatePolaroidLayout ==
    /\ pc = "polaroid"
    /\ backgroundColor' = ParseColor(BackgroundOr(<<"#", "F", "5", "F", "5", "F", "5">>))
    /\ \E source \in entropy :
          plan' = [polaroidSize |-> PolaroidSize(width, height, Len(imageFiles)),
                   usedPositions |-> <<>>,
                   source |-> source,
                   drawn |-> <<>>]
    /\ pc' = "polaroid_loop"
    /\ i' = 0
    /\ UNCHANGED <<env, request, compositeImages, skipped, requests, composited,
                   saved, err>>

\* a faulty iteration that records the position before it renders, so that
\* the position of a skipped image stays in the list
PolaroidImageRecordingFirst ==
    /\ pc = "polaroid_loop"
    /\ i < Len(imageFiles)
    /\ \E position \in GenerateNonOverlappingPosition(width, height,
                           plan.polaroidSize, plan.usedPositions, PolaroidMargin,
                           plan.source) :
          /\ TryRender(i, PolaroidImageSize(plan.polaroidSize),
                       PolaroidImageSize(plan.polaroidSize),
                       position.x, position.y)
          /\ plan' = [plan EXCEPT
                        !.usedPositions =
                            Append(@, [x |-> position.x, y |-> position.y,
                                       via |-> position.via]),
                        !.drawn = position.draw]
    /\ i' = i + 1
    /\ UNCHANGED <<env, backgroundColor, request, pc, composited, saved, err>>

\* a faulty iteration whose position also depends on something that is not a
\* draw of the generator (the clock, say): one pixel of jitter on x
PolaroidImageJittered ==
    /\ pc = "polaroid_loop"
    /\ i < Len(imageFiles)
    /\ \E position \in GenerateNonOverlappingPosition(width, height,
                           plan.polaroidSize, plan.usedPositions, PolaroidMargin,
                           plan.source), jitter \in {0, 1} :
          /\ TryRender(i, PolaroidImageSize(plan.polaroidSize),
                       PolaroidImageSize(plan.polaroidSize),
                       position.x + jitter, position.y)
          /\ plan' = [plan EXCEPT
                        !.usedPositions =
                            IF Len(compositeImages') > Len(compositeImages)
                            THEN Append(@, [x |-> position.x + jitter,
                                            y |-> position.y,
                                            via |-> position.via])
                            ELSE @,
                        !.drawn = position.draw]
    /\ i' = i + 1
    /\ UNCHANGED <<env, backgroundColor, request, pc, composited, saved, err>>

\* one iteration: the position is generated first; it joins usedPositions
\* only when the image was rendered and pushed
PolaroidImage ==
    /\ pc = "polaroid_loop"
    /\ i < Len(imageFiles)
    /\ \E position \in GenerateNonOverlappingPosition(width, height,
                           plan.polaroidSize, plan.usedPositions, PolaroidMargin,
                           plan.source) :
          /\ TryRender(i, PolaroidImageSize(plan.polaroidSize),
                       PolaroidImageSize(plan.polaroidSize),
                       position.x, position.y)
          /\ plan' = [plan EXCEPT
                        !.usedPositions =
                            IF Len(compositeImages') > Len(compositeImages)
                            THEN Append(@, [x |-> position.x, y |-> position.y,
                                            via |-> position.via])
                            ELSE @,
                        !.drawn = position.draw]
    /\ i' = i + 1
    /\ UNCHANGED <<env, backgroundColor, request, pc, composited, saved, err>>

PolaroidFinish ==
    /\ pc = "polaroid_loop"
    /\ i = Len(imageFiles)
    /\ ReturnComposite
    /\ UNCHANGED <<env, backgroundColor, request, plan, i, compositeImages, skipped, requests,
                   saved>>

-----------------------------------------------------------------------------
(* createMosaicLayout and generateMosaicPattern *)

\* a normalized quantity is a fraction <<numerator, denominator>>; NaN is a
\* fraction with numerator JsNaN
NaNFraction == <<JsNaN, 1>>

\* the greatest common divisor of a >= 0 and b > 0
RECURSIVE Gcd(_, _)
Gcd(a, b) == IF a = 0 THEN b ELSE Gcd(b % a, a)

\* the fraction n / d, n >= 0 and d > 0, in lowest terms
Fraction(n, d) == <<n \div Gcd(n, d), d \div Gcd(n, d)>>

\* 0.2 + Math.random() * 0.3 for the draw k / RandDen
MosaicBase(k) == Fraction(2 * RandDen + 3 * k, 10 * RandDen)

\* aspectRatio > 1 ? baseWidth : baseWidth * aspectRatio
MosaicWidth(k, canvasWidth, canvasHeight) ==
    IF canvasWidth > canvasHeight THEN MosaicBase(k)
    ELSE Fraction(MosaicBase(k)[1] * canvasWidth, MosaicBase(k)[2] * canvasHeight)

\* aspectRatio < 1 ? baseHeight : baseHeight / aspectRatio
MosaicHeight(k, canvasWidth, canvasHeight) ==
    IF canvasWidth < canvasHeight THEN MosaicBase(k)
    ELSE Fraction(MosaicBase(k)[1] * canvasHeight, MosaicBase(k)[2] * canvasWidth)

\* a faulty offset that is not scaled by the room left: Math.random()
MosaicOffsetUnscaled(k, extent) == Fraction(k, RandDen)

\* Math.random() * (1 - extent) for the draw k / RandDen
MosaicOffset(k, extent) ==
    Fraction(k * (extent[2] - extent[1]), RandDen * extent[2])

\* one iteration of generateMosaicPattern with the four draws
MosaicPattern(kw, kh, kx, ky, canvasWidth, canvasHeight) ==
    IF ~(IsFinite(canvasWidth) /\ IsFinite(canvasHeight))
    THEN [width |-> NaNFraction, height |-> NaNFraction,
          x |-> NaNFraction, y |-> NaNFraction]
    ELSE LET w == MosaicWidth(kw, canvasWidth, canvasHeight)
             h == MosaicHeight(kh, canvasWidth, canvasHeight)
         IN  [width |-> w, height |-> h,
              x |-> MosaicOffset(kx, w), y |-> MosaicOffset(ky, h)]

\* Math.floor(canvas * fraction)
FloorScaled(canvas, fraction) ==
    IF ~IsFinite(canvas) \/ fraction[1] = JsNaN THEN JsNaN
    ELSE (canvas * fraction[1]) \div fraction[2]

\* Math.max(100, Math.floor(canvas * extent))
MosaicSize(canvas, extent) == JsMax(100, FloorScaled(canvas, extent))

\* a faulty origin without the upper clamp:
\* Math.max(0, Math.floor(canvas * offset))
MosaicOriginUnclamped(canvas, size, offset) == JsMax(0, FloorScaled(canvas, offset))

\* Math.max(0, Math.min(canvas - size, Math.floor(canvas * offset)))
MosaicOrigin(canvas, size, offset) ==
    JsMax(0, JsMin(JsSub(canvas, size), FloorScaled(canvas, offset)))

CreateMosaicLayout ==
    /\ pc = "mosaic"
    /\ backgroundColor' = ParseColor(BackgroundOr(<<"#", "F", "F", "F", "F", "F", "F">>))
    /\ \E source \in entropy :
          plan' = [patterns |-> <<>>, source |-> source, drawn |-> <<>>]
    /\ pc' = "mosaic_pattern"
    /\ i' = 0
    /\ UNCHANGED <<env, request, compositeImages, skipped, requests, composited,
                   saved, err>>

\* generateMosaicPattern: one iteration per image, then the return
GenerateMosaicPattern ==
    /\ pc = "mosaic_pattern"
    /\ IF Len(plan.patterns) < Len(imageFiles)
       THEN /\ \E kw \in plan.source, kh \in plan.source,
                  kx \in plan.source, ky \in plan.source :
                  plan' = [plan EXCEPT
                              !.patterns =
                                  Append(@, MosaicPattern(kw, kh, kx, ky, width, height)),
                              !.drawn = <<kw, kh, kx, ky>>]
            /\ UNCHANGED pc
       ELSE /\ pc' = "mosaic_loop"
            /\ UNCHANGED plan
    /\ UNCHANGED <<env, backgroundColor, request, i, compositeImages, skipped, requests,
                   composited, saved, err>>

\* Math.min(imageFiles.length, patterns.length)
MosaicCount == IF Len(plan.patterns) < Len(imageFiles)
               THEN Len(plan.patterns) ELSE Len(imageFiles)

MosaicImage ==
    /\ pc = "mosaic_loop"
    /\ i < MosaicCount
    /\ LET pattern == plan.patterns[i + 1]
           w == MosaicSize(width, pattern.width)
           h == MosaicSize(height, pattern.height)
       IN  TryRender(i, w, h, MosaicOrigin(width, w, pattern.x),
                        MosaicOrigin(height, h, pattern.y))
    /\ i' = i + 1
    /\ UNCHANGED <<env, backgroundColor, request, pc, plan, composited, saved, err>>

MosaicFinish ==
    /\ pc = "mosaic_loop"
    /\ i = MosaicCount
    /\ ReturnComposite
    /\ UNCHANGED <<env, backgroundColor, request, plan, i, compositeImages, skipped, requests,
                   saved>>

-----------------------------------------------------------------------------
(* createFilmstripLayout *)

perfWidth == 15

perfSpacing == 30

\* Math.floor(canvasHeight * 0.6)
StripHeight(canvasHeight) == JsFloorDiv(JsMul(3, canvasHeight), 5)

\* Math.floor(stripHeight * 0.15)
PerfHeight(stripHeight) == JsFloorDiv(JsMul(3, stripHeight), 20)

FrameAreaHeight(stripHeight) ==
    JsSub(stripHeight, JsMul(2, PerfHeight(stripHeight)))

TotalFrameWidth(canvasWidth, sp) == JsSub(canvasWidth, JsMul(2, sp))

\* Math.floor(totalFrameWidth * 0.02)
FrameSpacing(totalFrameWidth) == JsFloorDiv(totalFrameWidth, 50)

FrameWidth(canvasWidth, sp, imageCount) ==
    LET total == TotalFrameWidth(canvasWidth, sp)
        totalSpacing == JsMul(FrameSpacing(total), imageCount - 1)
    IN  JsFloorDiv(JsSub(total, totalSpacing), imageCount)

\* Math.floor(frameAreaHeight * 0.85)
FrameHeight(frameAreaHeight) == JsFloorDiv(JsMul(17, frameAreaHeight), 20)

StripTopOf(canvasHeight) ==
    JsFloorDiv(JsSub(canvasHeight, StripHeight(canvasHeight)), 2)

FrameTop(canvasHeight) ==
    LET stripHeight == StripHeight(canvasHeight)
        area == FrameAreaHeight(stripHeight)
    IN  JsAdd(JsAdd(StripTopOf(canvasHeight), PerfHeight(stripHeight)),
              JsFloorDiv(JsSub(area, FrameHeight(area)), 2))

FrameLeft(index, canvasWidth, sp, imageCount) ==
    JsAdd(sp, JsMul(index, JsAdd(FrameWidth(canvasWidth, sp, imageCount),
                                 FrameSpacing(TotalFrameWidth(canvasWidth, sp)))))

\* how often the perforation loop runs: x = perfSpacing, 2 * perfSpacing, ...
\* while x < canvasWidth - perfWidth
PerforationCount(canvasWidth) ==
    Cardinality({k \in 1..(canvasWidth \div perfSpacing) :
                    k * perfSpacing < canvasWidth - perfWidth})

\* a faulty perforation loop that pushes nothing ahead of the images
PerforationsLeftOut(canvasWidth, canvasHeight) == <<>>

\* the layers the perforation loop pushes: per x a top and a bottom one
Perforations(canvasWidth, canvasHeight) ==
    LET stripHeight == StripHeight(canvasHeight)
        perfHeight == PerfHeight(stripHeight)
        stripTop == StripTopOf(canvasHeight)
    IN  [j \in 1..(2 * PerforationCount(canvasWidth)) |->
            Decoration(((j + 1) \div 2) * perfSpacing,
                       IF j % 2 = 1 THEN stripTop
                       ELSE stripTop + stripHeight - perfHeight,
                       perfWidth, perfHeight)]

\* the planner up to its image loop: the band and the perforations; the two
\* sharp({create: ...}) calls are outside any try block
CreateFilmstripLayout ==
    /\ pc = "filmstrip"
    /\ backgroundColor' = ParseColor(BackgroundOr(<<"#", "1", "a", "1", "a", "1", "a">>))
    /\ plan' = [frameWidth |-> FrameWidth(width, spacing, Len(imageFiles)),
                frameHeight |-> FrameHeight(FrameAreaHeight(StripHeight(height))),
                frameTop |-> FrameTop(height)]
    /\ IF /\ PositiveInt(width)
          /\ PositiveInt(StripHeight(height))
          /\ PerforationCount(width) > 0 => PositiveInt(PerfHeight(StripHeight(height)))
       THEN /\ compositeImages' =
                  <<Decoration(0, StripTopOf(height), width, StripHeight(height))>>
                  \o Perforations(width, height)
            /\ pc' = "filmstrip_loop"
            /\ UNCHANGED err
       ELSE /\ Throw(Error("CodecError"))
            /\ UNCHANGED compositeImages
    /\ i' = 0
    /\ UNCHANGED <<env, request, skipped, requests, composited, saved>>

FilmstripImage ==
    /\ pc = "filmstrip_loop"
    /\ i < Len(imageFiles)
    /\ TryRender(i, plan.frameWidth, plan.frameHeight,
                    FrameLeft(i, width, spacing, Len(imageFiles)), plan.frameTop)
    /\ i' = i + 1
    /\ UNCHANGED <<env, backgroundColor, request, pc, plan, composited, saved, err>>

FilmstripFinish ==
    /\ pc = "filmstrip_loop"
    /\ i = Len(imageFiles)
    /\ ReturnComposite
    /\ UNCHANGED <<env, backgroundColor, request, plan, i, compositeImages, skipped, requests,
                   saved>>

-----------------------------------------------------------------------------
(* createMagazineLayout *)

\* Math.floor(canvasWidth * 0.55)
MainWidth(canvasWidth) == JsFloorDiv(JsMul(11, canvasWidth), 20)

\* Math.floor(canvasHeight * 0.8)
MainHeight(canvasHeight) == JsFloorDiv(JsMul(4, canvasHeight), 5)

MainTop(canvasHeight) ==
    JsFloorDiv(JsSub(canvasHeight, MainHeight(canvasHeight)), 2)

\* Math.min(2, secondaryImages.length)
SecondaryCols(secondaryCount) == IF secondaryCount < 2 THEN secondaryCount ELSE 2

SecondaryRows(secondaryCount) ==
    JsCeilDiv(secondaryCount, SecondaryCols(secondaryCount))

SecondaryWidth(canvasWidth, sp, cols) ==
    LET secondaryAreaWidth ==
            JsSub(JsSub(canvasWidth, MainWidth(canvasWidth)), JsMul(3, sp))
    IN  JsFloorDiv(JsSub(secondaryAreaWidth, JsMul(sp, cols - 1)), cols)

SecondaryHeight(canvasHeight, sp, rows) ==
    JsFloorDiv(JsSub(MainHeight(canvasHeight), JsMul(sp, JsSub(rows, 1))), rows)

SecondaryLeft(index, canvasWidth, sp, cols, secondaryWidth) ==
    JsAdd(JsAdd(MainWidth(canvasWidth), JsMul(2, sp)),
          JsMul(JsMod(index, cols), JsAdd(secondaryWidth, sp)))

SecondaryTop(index, canvasHeight, sp, cols, secondaryHeight) ==
    JsAdd(MainTop(canvasHeight),
          JsMul(JsFloorDiv(index, cols), JsAdd(secondaryHeight, sp)))

\* the featured image, in its own try block, then the set-up of the
\* secondary grid
MagazineMain ==
    /\ pc = "magazine"
    /\ backgroundColor' = ParseColor(BackgroundOr(<<"#", "F", "F", "F", "F", "F", "F">>))
    /\ TryRender(0, MainWidth(width), MainHeight(height), spacing,
                    MainTop(height))
    /\ LET secondaryCount == Len(imageFiles) - 1
           cols == SecondaryCols(secondaryCount)
           rows == SecondaryRows(secondaryCount)
       IN  plan' = IF Len(imageFiles) > 1
                   THEN [cols |-> cols, rows |-> rows,
                         secondaryWidth |-> SecondaryWidth(width, spacing, cols),
                         secondaryHeight |->
                             SecondaryHeight(height, spacing, rows)]
                   ELSE plan
    /\ pc' = "magazine_loop"
    /\ i' = 0
    /\ UNCHANGED <<env, request, composited, saved, err>>

\* one iteration over secondaryImages = imageFiles.slice(1): its image i is
\* image i + 1 of the input
MagazineImage ==
    /\ pc = "magazine_loop"
    /\ i < Len(imageFiles) - 1
    /\ TryRender(i + 1, plan.secondaryWidth, plan.secondaryHeight,
                    SecondaryLeft(i, width, spacing, plan.cols, plan.secondaryWidth),
                    SecondaryTop(i, height, spacing, plan.cols, plan.secondaryHeight))
    /\ i' = i + 1
    /\ UNCHANGED <<env, backgroundColor, request, pc, plan, composited, saved, err>>

MagazineFinish ==
    /\ pc = "magazine_loop"
    /\ i >= Len(imageFiles) - 1
    /\ ReturnComposite
    /\ UNCHANGED <<env, backgroundColor, request, plan, i, compositeImages, skipped, requests,
                   saved>>

-----------------------------------------------------------------------------
(* collageCommand: output *)

SupportedFormats == {<<"j", "p", "g">>, <<"j", "p", "e", "g">>,
                     <<"p", "n", "g">>, <<"w", "e", "b", "p">>}

\* options.format?.toLowerCase() || "jpg"
OutputFormat(option) ==
    IF option = Absent THEN <<"j", "p", "g">> ELSE ToLowerCase(option)

\* a faulty output step that writes the file before it looks at the format
SaveCollageUnchecked ==
    /\ pc = "encode"
    /\ saved' = TRUE
    /\ \E formatOption \in FormatOptions :
          IF OutputFormat(formatOption) \in SupportedFormats
          THEN /\ pc' = "done"
               /\ UNCHANGED err
          ELSE Throw(Error("UnsupportedOutputFormat"))
    /\ UNCHANGED <<env, backgroundColor, imageFiles, selectedFiles, layout, width, height,
                   spacing, plan, i, compositeImages, skipped, requests,
                   composited>>

\* the format switch and toFile
SaveCollage ==
    /\ pc = "encode"
    /\ \E formatOption \in FormatOptions :
          IF OutputFormat(formatOption) \in SupportedFormats
          THEN /\ saved' = TRUE
               /\ pc' = "done"
               /\ UNCHANGED err
          ELSE /\ Throw(Error("UnsupportedOutputFormat"))
               /\ UNCHANGED saved
    /\ UNCHANGED <<env, backgroundColor, imageFiles, selectedFiles, layout, width, height,
                   spacing, plan, i, compositeImages, skipped, requests,
                   composited>>

-----------------------------------------------------------------------------
(* Specifications *)

NoPlan == [none |-> TRUE]

\* collageCommand is entered: nothing resolved, parsed or rendered yet
Start ==
    /\ layoutName \in LayoutOptions
    /\ pc = "find"
    /\ imageFiles = <<>>
    /\ selectedFiles = NoSelection
    /\ backgroundColor = NoColor
    /\ layout = Undefined
    /\ width = 0
    /\ height = 0
    /\ spacing = 0
    /\ plan = NoPlan
    /\ i = 0
    /\ compositeImages = <<>>
    /\ skipped = <<>>
    /\ requests = <<>>
    /\ composited = FALSE
    /\ saved = FALSE
    /\ err = NoError

\* one run draws either always the least or always the greatest value
SingleValueSources == {{0}, {RandDen - 1}}

\* a whole build over a small folder, any of whose files may be damaged
Init ==
    /\ background = Absent
    /\ Start
    /\ folder \in 0..MaxFiles
    /\ damaged \in SUBSET (1..folder)
    /\ entropy = SingleValueSources

Validate == FindImageFiles \/ ResolveLayout \/ CheckImageCount \/ ParseDimensions

Next ==
    \/ FindImageFiles
    \/ ResolveLayout
    \/ CheckImageCount
    \/ ParseDimensions
    \/ CreateGridLayout
    \/ GridImage
    \/ GridFinish
    \/ CreateStripLayout
    \/ StripImage
    \/ StripFinish
    \/ CreatePolaroidLayout
    \/ PolaroidImage
    \/ PolaroidFinish
    \/ CreateMosaicLayout
    \/ GenerateMosaicPattern
    \/ MosaicImage
    \/ MosaicFinish
    \/ CreateFilmstripLayout
    \/ FilmstripImage
    \/ FilmstripFinish
    \/ MagazineMain
    \/ MagazineImage
    \/ MagazineFinish
    \/ SaveCollage

Spec == Init /\ [][Next]_vars

\* the validation of collageCommand alone, over folders large enough to
\* exceed every layout's maxImages; no file is decoded during validation
InitValidate ==
    /\ background = Absent
    /\ Start
    /\ folder \in 0..MaxFolder
    /\ damaged = {}
    /\ entropy = SingleValueSources

SpecValidate == InitValidate /\ [][Validate]_vars

\* canvases and spacings the validation lets through to the grid planner
GridWidths == {200, 900, 1920}

GridHeights == {200, 900, 1080}

GridSpacings == {-10, 0, 10, 60}

\* createGridLayout is entered with a validated request for every count the
\* registry admits
InitGrid ==
    /\ background = Absent
    /\ layoutName = Str_grid
    /\ layout = LayoutProperty(Str_grid)
    /\ folder \in layout.minImages..layout.maxImages
    /\ damaged \in {{}, {2}}
    /\ imageFiles = [k \in 1..folder |-> k]
    /\ selectedFiles = NoSelection
    /\ backgroundColor = NoColor
    /\ width \in GridWidths
    /\ height \in GridHeights
    /\ spacing \in GridSpacings
    /\ pc = "grid"
    /\ plan = NoPlan
    /\ i = 0
    /\ compositeImages = <<>>
    /\ skipped = <<>>
    /\ requests = <<>>
    /\ composited = FALSE
    /\ saved = FALSE
    /\ err = NoError
    /\ entropy = SingleValueSources

NextGrid == CreateGridLayout \/ GridImage \/ GridFinish

SpecGrid == InitGrid /\ [][NextGrid]_vars

\* createStripLayout is entered with a validated request for every count the
\* registry admits
InitStrip ==
    /\ background = Absent
    /\ layoutName = Str_strip
    /\ layout = LayoutProperty(Str_strip)
    /\ folder \in layout.minImages..layout.maxImages
    /\ damaged \in {{}, {2}}
    /\ imageFiles = [k \in 1..folder |-> k]
    /\ selectedFiles = NoSelection
    /\ backgroundColor = NoColor
    /\ width \in {200, 930, 1920}
    /\ height \in {200, 300, 1080}
    /\ spacing \in {-10, 0, 10, 60}
    /\ pc = "strip"
    /\ plan = NoPlan
    /\ i = 0
    /\ compositeImages = <<>>
    /\ skipped = <<>>
    /\ requests = <<>>
    /\ composited = FALSE
    /\ saved = FALSE
    /\ err = NoError
    /\ entropy = SingleValueSources

SpecStrip == InitStrip /\ [][CreateStripLayout \/ StripImage \/ StripFinish]_vars

\* a run draws from the two extreme values, or from two values in between
PairSources == {{0, RandDen - 1}, {1, RandDen - 2}}

\* createPolaroidLayout or createMosaicLayout is entered with a validated
\* request; a mosaic is planned tile by tile, each from four fresh draws, so
\* its least count shows every tile the planner can make
InitScatter ==
    /\ background = Absent
    /\ \/ /\ layoutName = Str_polaroid
          /\ folder \in LayoutProperty(Str_polaroid).minImages..MaxScatter
          /\ entropy = PairSources
       \/ /\ layoutName = Str_mosaic
          /\ folder = LayoutProperty(Str_mosaic).minImages
          /\ entropy = {{0, RandDen - 1}}
    /\ layout = LayoutProperty(layoutName)
    /\ pc = layout.name
    /\ damaged \in {{}, {2}}
    /\ imageFiles = [k \in 1..folder |-> k]
    /\ selectedFiles = NoSelection
    /\ backgroundColor = NoColor
    /\ \E canvas \in {<<200, 200>>, <<1920, 1080>>, <<200, 8000>>, <<8000, 8000>>} :
          width = canvas[1] /\ height = canvas[2]
    /\ spacing = 10
    /\ plan = NoPlan
    /\ i = 0
    /\ compositeImages = <<>>
    /\ skipped = <<>>
    /\ requests = <<>>
    /\ composited = FALSE
    /\ saved = FALSE
    /\ err = NoError

NextScatter ==
    \/ CreatePolaroidLayout
    \/ PolaroidImage
    \/ PolaroidFinish
    \/ CreateMosaicLayout
    \/ GenerateMosaicPattern
    \/ MosaicImage
    \/ MosaicFinish

SpecScatter == InitScatter /\ [][NextScatter]_vars

\* createPolaroidLayout is entered with a validated request for every count
\* the registry admits; every draw of a run has the same value, so that after
\* the first position no sample can be accepted
InitPolaroid ==
    /\ background = Absent
    /\ layoutName = Str_polaroid
    /\ layout = LayoutProperty(Str_polaroid)
    /\ folder \in layout.minImages..layout.maxImages
    /\ damaged \in {{}, {2}}
    /\ imageFiles = [k \in 1..folder |-> k]
    /\ selectedFiles = NoSelection
    /\ backgroundColor = NoColor
    /\ width \in {200, 250, 900, 8000}
    /\ height \in {200, 250, 900, 8000}
    /\ spacing = 10
    /\ pc = "polaroid"
    /\ plan = NoPlan
    /\ i = 0
    /\ compositeImages = <<>>
    /\ skipped = <<>>
    /\ requests = <<>>
    /\ composited = FALSE
    /\ saved = FALSE
    /\ err = NoError
    /\ entropy = SingleValueSources

NextPolaroid == CreatePolaroidLayout \/ PolaroidImage \/ PolaroidFinish

\* the planner is sequential code: once called it keeps running
SpecPolaroid == InitPolaroid /\ [][NextPolaroid]_vars /\ WF_vars(NextPolaroid)

\* options.background: absent, names, hex forms with good and bad digits,
\* rgb forms with and without a blank and with a channel above 255, and
\* tokens of none of the forms
BackgroundOptions ==
    LET hexChars == {"0", "9", "a", "F", "g", "-"}
        hexPairs == {<<"0", "0">>, <<"f", "f">>, <<"7", "F">>, <<"0", "g">>,
                     <<"-", "1">>}
        numbers == {<<"0">>, <<"1", "2", "8">>, <<"3", "0", "0">>}
    IN  {Absent}
        \cup {<<"#", a, b, c>> : a \in hexChars, b \in hexChars, c \in hexChars}
        \cup {<<"#">> \o x \o y \o z : x \in hexPairs, y \in hexPairs, z \in hexPairs}
        \cup {<<"r", "g", "b", "(">> \o x \o <<",">> \o blank \o y \o <<",">> \o z \o <<")">> :
                  x \in numbers, y \in numbers, z \in numbers,
                  blank \in {<<>>, <<" ">>}}
        \cup {<<"w", "h", "i", "t", "e">>,
              <<"B", "l", "a", "c", "k">>,
              <<" ", "r", "e", "d", " ">>,
              <<"g", "r", "e", "y">>,
              <<"c", "y", "a", "n">>,
              <<"o", "r", "a", "n", "g", "e">>,
              <<"c", "o", "n", "s", "t", "r", "u", "c", "t", "o", "r">>,
              <<"#">>,
              <<"#", "1", "2">>,
              <<"#", "1", "2", "3", "4">>,
              <<"#", " ", "f", "f">>,
              <<"#", "0", "x", "f", "0", "x", "f">>,
              <<"r", "g", "b", "(", "1", ",", "2", ")">>,
              <<"r", "g", "b", "a", "(", "1", ",", "2", ",", "3", ")">>,
              <<"r", "g", "b", "(", "-", "1", ",", "0", ",", "0", ")">>,
              <<"x", "r", "g", "b", "(", "1", ",", "2", ",", "3", ")", "y">>,
              <<"#", "r", "g", "b", "(", "1", ",", "2", ",", "3", ")">>,
              <<"r", "g", "b", "(", "1", " ", ",", "2", ",", "3", ")">>}

\* a planner is entered with a validated request and any background option
InitColor ==
    /\ background \in BackgroundOptions
    /\ layoutName \in DOMAIN layouts
    /\ layout = LayoutProperty(layoutName)
    /\ folder = layout.minImages
    /\ damaged = {}
    /\ imageFiles = [k \in 1..folder |-> k]
    /\ selectedFiles = NoSelection
    /\ backgroundColor = NoColor
    /\ width = 900
    /\ height = 300
    /\ spacing = 10
    /\ pc = layout.name
    /\ plan = NoPlan
    /\ i = 0
    /\ compositeImages = <<>>
    /\ skipped = <<>>
    /\ requests = <<>>
    /\ composited = FALSE
    /\ saved = FALSE
    /\ err = NoError
    /\ entropy = {{0}}

\* the first step of each planner, which resolves the background
NextColor ==
    \/ CreateGridLayout
    \/ CreateStripLayout
    \/ CreatePolaroidLayout
    \/ CreateMosaicLayout
    \/ CreateFilmstripLayout
    \/ MagazineMain

SpecColor == InitColor /\ [][NextColor]_vars

-----------------------------------------------------------------------------
(* Properties: what a build has done *)

\* the positions of the image layers among the layers pushed
ImageLayers == {k \in 1..Len(compositeImages) : compositeImages[k].kind = "image"}

\* the input indices of the images placed
Placed == {compositeImages[k].index : k \in ImageLayers}

\* the input indices of the images skipped
Skipped == {skipped[k] : k \in 1..Len(skipped)}

\* the input indices whose try block fails: the file cannot be decoded, or
\* the codec rejects the size asked for
Failing ==
    {requests[k].index : k \in
        {j \in 1..Len(requests) :
            \/ imageFiles[requests[j].index + 1] \in damaged
            \/ ~PositiveInt(requests[j].width)
            \/ ~PositiveInt(requests[j].height)}}

\* the build entered a per-image loop and has left the planner
LoopEnded == pc \in {"encode", "done"} /\ Len(requests) > 0

-----------------------------------------------------------------------------
(* Properties: the per-image loop *)

\* C1 (as the specification states it): in every layout, when every input
\* image fails, so that no image placement survives the loop, the build
\* fails with NoValidImages and no collage is composed or written.
C1_AllFailedIsNoValidImages ==
    (LoopEnded /\ PositiveInt(width) /\ PositiveInt(height) /\ Placed = {})
        => (err.kind = "NoValidImages" /\ ~composited /\ ~saved)

\* C2: when a build that entered the per-image loop has left its planner,
\* the image layers placed plus the images skipped number the input images.
C2_PlacedPlusSkipped ==
    LoopEnded => Cardinality(ImageLayers) + Len(skipped) = Len(imageFiles)

\* a magazine build is saved with some images placed and others skipped
C2_Witness ==
    /\ layout.name = "magazine"
    /\ pc = "done"
    /\ saved
    /\ Cardinality(ImageLayers) > 0
    /\ Len(skipped) > 0

\* C3: a failing image never ends the build. When the loop has ended, the
\* images skipped are exactly the failing ones and every other input image
\* is placed; and if at least one image was placed the planner has handed
\* over its composite, and the build ends either saved without error or on
\* the output format alone, which no image influences.
C3_FailuresAreSkipped ==
    LoopEnded =>
        /\ Skipped = Failing
        /\ Placed = (0..(Len(imageFiles) - 1)) \ Failing
        /\ Len(skipped) = Cardinality(Skipped)
        /\ Placed # {} =>
              /\ composited
              /\ err.kind \in {"none", "UnsupportedOutputFormat"}
              /\ (pc = "done" /\ err.kind = "none") => saved

\* mosaic with five images, one of them damaged: four placed, one skipped,
\* and the collage saved
C3_Witness ==
    /\ layout.name = "mosaic"
    /\ Len(imageFiles) = 5
    /\ Cardinality(damaged) = 1
    /\ Cardinality(Placed) = 4
    /\ Len(skipped) = 1
    /\ saved
    /\ err = NoError

-----------------------------------------------------------------------------
(* Properties: fatal errors *)

\* the fatal errors the specification lists
ListedFatal == {"InvalidLayout", "ImageCountOutOfBounds", "CanvasOutOfRange",
                "CanvasTooSmall", "NoValidImages", "UnsupportedOutputFormat"}

\* C4 (as the specification states it): every listed fatal error ends the
\* build before any compositor call: no composite has been requested and no
\* output file has been written.
C4_FatalBeforeComposite ==
    err.kind \in ListedFatal => (~composited /\ ~saved)

\* C4 (amended): every error ends the build with no output file written;
\* every error except UnsupportedOutputFormat is raised before the planner
\* requests the composite, and UnsupportedOutputFormat is raised only after
\* the planner has requested it.
C4_FatalBeforeOutput ==
    err.kind # "none" =>
        /\ pc = "done"
        /\ ~saved
        /\ composited <=> err.kind = "UnsupportedOutputFormat"

\* a build that ends on the output format after its composite was requested
C4_Witness ==
    /\ err.kind = "UnsupportedOutputFormat"
    /\ pc = "done"
    /\ composited
    /\ ~saved

-----------------------------------------------------------------------------
(* Properties: validation *)

\* C5: for a known layout, once the count check has run, the build has
\* failed with ImageCountOutOfBounds exactly when the number of selected
\* images is below minImages or above maxImages; the error carries the bound
\* violated and the actual count, and no planner has run and no codec call
\* was made.
C5_CountOutOfBounds ==
    (layout.truthy /\ layout.name \in Implemented
        /\ pc \notin {"find", "lookup", "count"}) =>
        LET n == Len(imageFiles)
        IN  /\ err.kind = "ImageCountOutOfBounds"
                  <=> (n < layout.minImages \/ n > layout.maxImages)
            /\ err.kind = "ImageCountOutOfBounds" =>
                  /\ err.actual = n
                  /\ err.bound = IF n < layout.minImages THEN layout.minImages
                                 ELSE layout.maxImages
                  /\ pc = "done"
                  /\ plan = NoPlan
                  /\ requests = <<>>
                  /\ compositeImages = <<>>
                  /\ ~composited
                  /\ ~saved

\* filmstrip with nine images is refused, naming its maximum of eight
C5_Witness ==
    /\ layout.name = "filmstrip"
    /\ Len(imageFiles) = 9
    /\ err = CountError(8, 9)
    /\ pc = "done"

\* the six layouts and the bounds the specification gives them
ListedBounds ==
    [grid |-> <<4, 25>>, strip |-> <<2, 10>>, polaroid |-> <<2, 12>>,
     mosaic |-> <<3, 20>>, filmstrip |-> <<3, 8>>, magazine |-> <<3, 8>>]

\* the lower-cased names of the six layouts
ListedNames == {Str_grid, Str_strip, Str_polaroid, Str_mosaic, Str_filmstrip,
                Str_magazine}

\* C6 (as the specification states it): once the lookup has run, a name
\* that lower-cases to one of the six layouts has resolved to that layout
\* with its listed bounds, and any other name has failed with InvalidLayout.
C6_SixLayoutsOnly ==
    (pc \notin {"find", "lookup"} /\ err.kind # "NoFilesFound") =>
        IF layoutName # Absent /\ ToLowerCase(layoutName) \in ListedNames
        THEN /\ err.kind # "InvalidLayout"
             /\ layout.name \in DOMAIN ListedBounds
             /\ <<layout.minImages, layout.maxImages>> = ListedBounds[layout.name]
        ELSE err.kind = "InvalidLayout"

\* the positions of collageCommand before the dimensions are validated, and
\* the errors that end it there
BeforeDimensions == {"find", "lookup", "count", "parse"}

EarlyErrors == {"NoFilesFound", "InvalidLayout", "ImageCountOutOfBounds"}

\* C7 (as the specification states it): once the dimensions are validated,
\* either width and height both lie in [200, 8000], or the build has failed
\* and no planner has run.
C7_CanvasInRange ==
    (pc \notin BeforeDimensions /\ err.kind \notin EarlyErrors) =>
        \/ width \in 200..8000 /\ height \in 200..8000
        \/ /\ err.kind = "CanvasOutOfRange"
           /\ pc = "done"
           /\ plan = NoPlan
           /\ requests = <<>>

-----------------------------------------------------------------------------
(* Properties: the grid planner *)

\* the grid planner has computed its cells
GridPlanned == layout.name = "grid" /\ "cellWidth" \in DOMAIN plan

\* r = ceil(n / c) for positive integers, without a division
IsCeilDiv(r, n, c) == (r - 1) * c < n /\ n <= r * c

\* q = floor(a / c) for a positive integer c, without a division
IsFloorDiv(q, a, c) == q * c <= a /\ a < (q + 1) * c

\* C8 (as the specification states it): for a valid count and a column
\* count of at least one, rows is ceil(count / cols) and every grid
\* placement lies inside the canvas and measures at least 50 by 50.
C8_GridInsideCanvas ==
    (GridPlanned /\ PositiveInt(plan.cols)) =>
        /\ IsCeilDiv(plan.rows, Len(imageFiles), plan.cols)
        /\ \A k \in ImageLayers :
              LET placement == compositeImages[k]
              IN  /\ placement.left >= 0
                  /\ placement.top >= 0
                  /\ placement.left + placement.width <= width
                  /\ placement.top + placement.height <= height
                  /\ placement.width >= 50
                  /\ placement.height >= 50

\* C9: cols is options.cols when given, else ceil(sqrt(count)); and for a
\* column count of at least one, rows is ceil(count / cols), the cell sizes
\* are floor((W - spacing * (cols + 1)) / cols) and
\* floor((H - spacing * (rows + 1)) / rows), and image i is placed with the
\* cell size at x = spacing + (i mod cols) * (cellWidth + spacing),
\* y = spacing + floor(i / cols) * (cellHeight + spacing). Nine images on
\* 900 x 900 with spacing 10: three columns and rows, cells of 286, image 4
\* at (306, 306).
C9_GridFormulas ==
    GridPlanned =>
        LET n == Len(imageFiles)
            cols == plan.cols
            rows == plan.rows
            cellWidth == plan.cellWidth
            cellHeight == plan.cellHeight
        IN  /\ plan.colsOption = Absent =>
                  (cols >= 1 /\ (cols - 1) * (cols - 1) < n /\ n <= cols * cols)
            /\ plan.colsOption # Absent => cols = ParseInt(plan.colsOption)
            /\ PositiveInt(cols) =>
                  /\ IsCeilDiv(rows, n, cols)
                  /\ IsFloorDiv(cellWidth, width - spacing * (cols + 1), cols)
                  /\ IsFloorDiv(cellHeight, height - spacing * (rows + 1), rows)
                  /\ \A k \in ImageLayers :
                        LET placement == compositeImages[k]
                            index == placement.index
                        IN  /\ placement.width = cellWidth
                            /\ placement.height = cellHeight
                            /\ placement.left =
                                  spacing + (index % cols) * (cellWidth + spacing)
                            /\ placement.top =
                                  spacing + (index \div cols) * (cellHeight + spacing)
            /\ (n = 9 /\ width = 900 /\ height = 900 /\ spacing = 10
                     /\ plan.colsOption = Absent) =>
                  /\ <<cols, rows, cellWidth, cellHeight>> = <<3, 3, 286, 286>>
                  /\ \A k \in ImageLayers :
                        compositeImages[k].index = 4 =>
                            /\ compositeImages[k].left = 306
                            /\ compositeImages[k].top = 306

\* nine images on 900 x 900 with spacing 10 and no cols option: the planner
\* has returned, with image 4 placed at (306, 306)
C9_Witness ==
    /\ GridPlanned
    /\ Len(imageFiles) = 9
    /\ <<width, height, spacing>> = <<900, 900, 10>>
    /\ plan.colsOption = Absent
    /\ pc = "encode"
    /\ \E k \in ImageLayers :
          /\ compositeImages[k].index = 4
          /\ compositeImages[k].left = 306
          /\ compositeImages[k].top = 306

\* C10: the grid planner fails with CanvasTooSmall exactly when the cell
\* width or the cell height it computed is below 50 (for a column count of
\* at least one: exactly when W - spacing * (cols + 1) < 50 * cols or
\* H - spacing * (rows + 1) < 50 * rows); and then no image was decoded and
\* no placement emitted.
C10_GridTooSmall ==
    GridPlanned =>
        /\ err.kind = "CanvasTooSmall"
              <=> (JsLt(plan.cellWidth, 50) \/ JsLt(plan.cellHeight, 50))
        /\ PositiveInt(plan.cols) =>
              (err.kind = "CanvasTooSmall"
                  <=> \/ width - spacing * (plan.cols + 1) < 50 * plan.cols
                      \/ height - spacing * (plan.rows + 1) < 50 * plan.rows)
        /\ err.kind = "CanvasTooSmall" =>
              /\ pc = "done"
              /\ requests = <<>>
              /\ compositeImages = <<>>
              /\ skipped = <<>>
              /\ ~composited

\* the cells are wide enough but not high enough, and the planner refused
C10_Witness ==
    /\ GridPlanned
    /\ err.kind = "CanvasTooSmall"
    /\ PositiveInt(plan.cols)
    /\ plan.cellWidth >= 50
    /\ plan.cellHeight < 50
    /\ requests = <<>>

-----------------------------------------------------------------------------
(* Properties: the strip planner *)

\* the strip planner has computed its image size
StripPlanned == layout.name = "strip" /\ "imageWidth" \in DOMAIN plan

\* C11: a horizontal strip gives each image the width
\* floor((W - spacing * (count + 1)) / count) and the height H - 2 * spacing
\* and places image i at x = spacing + i * (width + spacing), y = spacing; a
\* vertical strip does the same with the axes swapped; the planner fails
\* with CanvasTooSmall exactly when a computed dimension is below 50. Three
\* images on 930 x 300 with spacing 10: 296 x 280, image 1 at (316, 10).
C11_StripFormulas ==
    StripPlanned =>
        LET n == Len(imageFiles)
            w == plan.imageWidth
            h == plan.imageHeight
        IN  /\ ~plan.isVertical =>
                  /\ IsFloorDiv(w, width - spacing * (n + 1), n)
                  /\ h = height - 2 * spacing
            /\ plan.isVertical =>
                  /\ w = width - 2 * spacing
                  /\ IsFloorDiv(h, height - spacing * (n + 1), n)
            /\ err.kind = "CanvasTooSmall" <=> (w < 50 \/ h < 50)
            /\ err.kind = "CanvasTooSmall" => (requests = <<>> /\ pc = "done")
            /\ \A k \in ImageLayers :
                  LET placement == compositeImages[k]
                      along == spacing + placement.index * ((IF plan.isVertical THEN h ELSE w) + spacing)
                  IN  /\ placement.width = w
                      /\ placement.height = h
                      /\ placement.left = IF plan.isVertical THEN spacing ELSE along
                      /\ placement.top = IF plan.isVertical THEN along ELSE spacing
            /\ (n = 3 /\ <<width, height, spacing>> = <<930, 300, 10>>
                     /\ ~plan.isVertical) =>
                  /\ <<w, h>> = <<296, 280>>
                  /\ \A k \in ImageLayers :
                        compositeImages[k].index = 1 =>
                            <<compositeImages[k].left, compositeImages[k].top>> = <<316, 10>>

\* three images on 930 x 300 with spacing 10, horizontal: the planner has
\* returned with image 1 placed at (316, 10)
C11_Witness ==
    /\ StripPlanned
    /\ Len(imageFiles) = 3
    /\ <<width, height, spacing>> = <<930, 300, 10>>
    /\ ~plan.isVertical
    /\ pc = "encode"
    /\ \E k \in ImageLayers :
          /\ compositeImages[k].index = 1
          /\ <<compositeImages[k].left, compositeImages[k].top>> = <<316, 10>>

\* the sum of the widths the planner asked the codec for
RECURSIVE RequestedWidth(_)
RequestedWidth(rs) ==
    IF rs = <<>> THEN 0 ELSE Head(rs).width + RequestedWidth(Tail(rs))

\* C12: when a horizontal strip that passed the size check has run its
\* loop, one placement was planned per image, and the sum of the placement
\* widths plus spacing * (count + 1) is at most canvasWidth and falls short
\* of it by less than count pixels.
C12_StripWidthSum ==
    (StripPlanned /\ ~plan.isVertical /\ pc = "encode") =>
        LET n == Len(imageFiles)
            total == RequestedWidth(requests) + spacing * (n + 1)
        IN  /\ Len(requests) = n
            /\ total <= width
            /\ width - total < n

\* a horizontal strip whose widths do not divide evenly: pixels are left over
C12_Witness ==
    /\ StripPlanned
    /\ ~plan.isVertical
    /\ pc = "encode"
    /\ Len(imageFiles) = 7
    /\ RequestedWidth(requests) + spacing * (Len(imageFiles) + 1) < width

-----------------------------------------------------------------------------
(* Properties: the polaroid planner *)

\* the polaroid planner has started its plan
PolaroidPlanned == layout.name = "polaroid" /\ "usedPositions" \in DOMAIN plan

\* C13: within one polaroid plan the emitted image layers sit at the
\* positions kept in usedPositions, in order, and any two of those positions
\* that were both accepted on the randomized path are at least size + 20
\* apart on the x axis or on the y axis.
C13_RandomPositionsApart ==
    PolaroidPlanned =>
        LET used == plan.usedPositions
            size == plan.polaroidSize
            layers == SelectSeq(compositeImages, LAMBDA layer : layer.kind = "image")
        IN  /\ Len(layers) = Len(used)
            /\ \A k \in 1..Len(used) :
                  <<layers[k].left, layers[k].top>> = <<used[k].x, used[k].y>>
            /\ \A j \in 1..Len(used), k \in 1..Len(used) :
                  (j < k /\ used[j].via = "random" /\ used[k].via = "random") =>
                      \/ used[k].x - used[j].x >= size + 20
                      \/ used[j].x - used[k].x >= size + 20
                      \/ used[k].y - used[j].y >= size + 20
                      \/ used[j].y - used[k].y >= size + 20

\* a plan whose first three positions were all accepted on the randomized
\* path
C13_Witness ==
    /\ PolaroidPlanned
    /\ pc = "encode"
    /\ Len(plan.usedPositions) >= 3
    /\ \A k \in 1..3 : plan.usedPositions[k].via = "random"

\* C14 (as the specification states it): every position that the grid
\* fallback of the collision avoider produced lies inside the canvas.
C14_FallbackInsideCanvas ==
    PolaroidPlanned =>
        \A k \in 1..Len(plan.usedPositions) :
            LET position == plan.usedPositions[k]
            IN  position.via = "fallback" =>
                    /\ position.x >= 0
                    /\ position.y >= 0
                    /\ position.x + plan.polaroidSize <= width
                    /\ position.y + plan.polaroidSize <= height

\* the positions the collision avoider can return for the next image
NextPositions ==
    GenerateNonOverlappingPosition(width, height, plan.polaroidSize,
                                   plan.usedPositions, PolaroidMargin, plan.source)

\* the sample with the draws d is rejected by the overlap test
Rejected(d) ==
    Overlaps(Sample(d[1], width, plan.polaroidSize, PolaroidMargin),
             Sample(d[2], height, plan.polaroidSize, PolaroidMargin),
             plan.polaroidSize, plan.usedPositions)

\* the avoider returns: it has a result for the next image; the loop counter
\* never passes 100; a result of the randomized path is a sample the overlap
\* test did not reject; the fallback slot is returned only when samples can
\* be rejected, and is the only result when every sample is
AvoiderReturns ==
    (PolaroidPlanned /\ pc = "polaroid_loop" /\ i < Len(imageFiles)) =>
        /\ NextPositions # {}
        /\ \A a \in AttemptsReached(TRUE) : a <= 100
        /\ \A position \in NextPositions :
              /\ position.via = "random" => ~Rejected(position.draw)
              /\ position.via = "fallback" =>
                    /\ \E d \in plan.source \X plan.source : Rejected(d)
                    /\ position = FallbackPosition(plan.polaroidSize,
                                                   plan.usedPositions, PolaroidMargin)
        /\ (\A d \in plan.source \X plan.source : Rejected(d)) =>
              \E position \in NextPositions : position.via = "fallback"

MosaicPlanned == layout.name = "mosaic" /\ "patterns" \in DOMAIN plan

\* a / b <= 1 - c / d, for fractions <<a, b>> and <<c, d>> with b, d > 0
FitsInUnit(offset, extent) ==
    offset[1] * extent[2] + extent[1] * offset[2] <= offset[2] * extent[2]

\* C16: every normalized rectangle the mosaic planner generates, whatever
\* the aspect ratio of the canvas and the draws, has 0 <= x, 0 <= y,
\* x + width <= 1 and y + height <= 1.
C16_MosaicNormalized ==
    MosaicPlanned =>
        \A k \in 1..Len(plan.patterns) :
            LET pattern == plan.patterns[k]
            IN  /\ pattern.x[1] >= 0 /\ pattern.x[2] > 0
                /\ pattern.y[1] >= 0 /\ pattern.y[2] > 0
                /\ pattern.width[1] > 0 /\ pattern.width[2] > 0
                /\ pattern.height[1] > 0 /\ pattern.height[2] > 0
                /\ FitsInUnit(pattern.x, pattern.width)
                /\ FitsInUnit(pattern.y, pattern.height)

\* all the patterns of a canvas that is not square are generated, one of them
\* with the largest value of all four draws
C16_Witness ==
    /\ MosaicPlanned
    /\ width # height
    /\ Len(plan.patterns) = Len(imageFiles)
    /\ \E k \in 1..Len(plan.patterns) :
          plan.patterns[k] = MosaicPattern(RandDen - 1, RandDen - 1, RandDen - 1,
                                           RandDen - 1, width, height)

\* C17: after pixel conversion every mosaic tile is at least 100 wide and
\* 100 high, and the tiles placed lie inside the canvas.
C17_MosaicTilesInside ==
    MosaicPlanned =>
        /\ \A k \in 1..Len(requests) :
              requests[k].width >= 100 /\ requests[k].height >= 100
        /\ \A k \in ImageLayers :
              LET tile == compositeImages[k]
              IN  /\ 0 <= tile.left /\ tile.left + tile.width <= width
                  /\ 0 <= tile.top /\ tile.top + tile.height <= height

\* a tile that was raised to the floor of 100 pixels and pushed back by the
\* clamp to end exactly at the right edge
C17_Witness ==
    /\ MosaicPlanned
    /\ \E k \in ImageLayers :
          LET tile == compositeImages[k]
          IN  /\ tile.width = 100
              /\ tile.left + tile.width = width
              /\ FloorScaled(width, plan.patterns[tile.index + 1].x) > tile.left

\* C18: every size a planner asks the codec for is positive, and in the grid,
\* strip, filmstrip and magazine layouts the top-left corner of every image
\* placed is inside the canvas, whatever spacing was accepted.
C18_PlacementsInCanvas ==
    /\ \A k \in 1..Len(requests) :
          IsFinite(requests[k].width) /\ requests[k].width > 0
              /\ IsFinite(requests[k].height) /\ requests[k].height > 0
    /\ layout.name \in {"grid", "strip", "filmstrip", "magazine"} =>
          \A k \in ImageLayers :
              LET placement == compositeImages[k]
              IN  /\ IsFinite(placement.left) /\ IsFinite(placement.top)
                  /\ 0 <= placement.left /\ placement.left < width
                  /\ 0 <= placement.top /\ placement.top < height

\* the position the draws d decide: the rounded sample, or the fallback slot
\* when no sample was accepted
PositionOf(d) ==
    IF d = <<>>
    THEN [x |-> FallbackPosition(plan.polaroidSize, plan.usedPositions,
                                 PolaroidMargin).x,
          y |-> FallbackPosition(plan.polaroidSize, plan.usedPositions,
                                 PolaroidMargin).y,
          via |-> "fallback"]
    ELSE [x |-> Round(Sample(d[1], width, plan.polaroidSize, PolaroidMargin)),
          y |-> Round(Sample(d[2], height, plan.polaroidSize, PolaroidMargin)),
          via |-> "random"]

\* what a step of the polaroid loop leaves behind is decided by the state
\* before it, the failure pattern and the draws of the step
PolaroidStepDetermined ==
    (pc = "polaroid_loop" /\ i' = i + 1) =>
        LET position == PositionOf(plan'.drawn)
            size == PolaroidImageSize(plan.polaroidSize)
        IN  IF imageFiles[i + 1] \in damaged
            THEN /\ compositeImages' = compositeImages
                 /\ plan'.usedPositions = plan.usedPositions
                 /\ skipped' = Append(skipped, i)
            ELSE /\ compositeImages' =
                       Append(compositeImages,
                              ImageLayer(i, position.x, position.y, size, size))
                 /\ plan'.usedPositions = Append(plan.usedPositions, position)
                 /\ skipped' = skipped

\* the same for the mosaic planner: the pattern appended is decided by the
\* four draws of the iteration, and the tile by its pattern
MosaicStepDetermined ==
    /\ (pc = "mosaic_pattern" /\ pc' = "mosaic_pattern") =>
          LET d == plan'.drawn
          IN  plan'.patterns =
                  Append(plan.patterns,
                         MosaicPattern(d[1], d[2], d[3], d[4], width, height))
    /\ (pc = "mosaic_loop" /\ i' = i + 1) =>
          LET pattern == plan.patterns[i + 1]
              w == MosaicSize(width, pattern.width)
              h == MosaicSize(height, pattern.height)
          IN  /\ plan' = plan
              /\ IF imageFiles[i + 1] \in damaged
                 THEN compositeImages' = compositeImages /\ skipped' = Append(skipped, i)
                 ELSE /\ skipped' = skipped
                      /\ compositeImages' =
                            Append(compositeImages,
                                   ImageLayer(i, MosaicOrigin(width, w, pattern.x),
                                              MosaicOrigin(height, h, pattern.y), w, h))

C20_ShuffleReachesPlanner ==
    (pc = "lookup" /\ selectedFiles.shuffle) => imageFiles = selectedFiles.order

-----------------------------------------------------------------------------
(* Properties: the order of the per-image loop *)

\* an image is Pending until it is Placed or Skipped
Pending == (0..(Len(imageFiles) - 1)) \ (Placed \cup Skipped)

\* one step of a build: no image leaves Placed or Skipped, and the only image
\* that can leave Pending is the least pending one, which is also the one
\* the codec is asked for in that step; the images become Pending when
\* findImageFiles returns them
WalkStep ==
    /\ Placed \subseteq Placed'
    /\ Skipped \subseteq Skipped'
    /\ Placed' \cap Skipped' = {}
    /\ Len(skipped') = Cardinality(Skipped')
    /\ Cardinality(ImageLayers') = Cardinality(Placed')
    /\ \/ Pending' = Pending /\ requests' = requests
       \/ /\ Pending # {}
          /\ Pending' = Pending \ {Len(requests)}
          /\ \A k \in Pending : Len(requests) <= k
          /\ Len(requests') = Len(requests) + 1
          /\ requests'[Len(requests')].index = Len(requests)
       \/ pc = "find"

\* C21: the per-image loop of every layout visits the images in ascending
\* index; each image goes once from Pending to Placed or to Skipped and stays
\* there; and when the loop has ended no image is Pending.
C21_LinearWalk == [][WalkStep]_vars /\ [](LoopEnded => Pending = {})

\* a filmstrip loop has ended with the first image skipped and later ones
\* placed
C21_Witness ==
    /\ layout.name = "filmstrip"
    /\ LoopEnded
    /\ 0 \in Skipped
    /\ Cardinality(Placed) >= 2
    /\ Pending = {}

\* C22: in every layout the image layers of the stack are in ascending
\* order of the original image index, whatever was skipped, so that a later
\* image is drawn on top of an earlier one.
C22_StackInIndexOrder ==
    \A j, k \in ImageLayers :
        j < k => compositeImages[j].index < compositeImages[k].index

\* a magazine stack handed to the compositor with image 1 missing between
\* images 0 and 2
C22_Witness ==
    /\ layout.name = "magazine"
    /\ composited
    /\ 1 \in Skipped
    /\ {0, 2} \subseteq Placed

-----------------------------------------------------------------------------
(* Properties: the list of accepted polaroid positions *)

\* one iteration of the polaroid loop: the list keeps what it had; it gains
\* one position, that of the layer pushed, exactly when a layer is pushed,
\* and nothing when the image is skipped; and a sampled position was tested
\* against the whole list as it stood before the iteration
UsedPositionsStep ==
    (pc = "polaroid_loop" /\ i' = i + 1) =>
        LET before == plan.usedPositions
            after == plan'.usedPositions
        IN  /\ Len(after) >= Len(before)
            /\ \A k \in 1..Len(before) : after[k] = before[k]
            /\ IF Len(compositeImages') > Len(compositeImages)
               THEN /\ Len(after) = Len(before) + 1
                    /\ after[Len(after)].x = compositeImages'[Len(compositeImages')].left
                    /\ after[Len(after)].y = compositeImages'[Len(compositeImages')].top
                    /\ after[Len(after)].via = "random" =>
                          \A k \in 1..Len(before) :
                              ~Overlaps(Sample(plan'.drawn[1], width, plan.polaroidSize,
                                               PolaroidMargin),
                                        Sample(plan'.drawn[2], height, plan.polaroidSize,
                                               PolaroidMargin),
                                        plan.polaroidSize, <<before[k]>>)
               ELSE /\ after = before
                    /\ Len(skipped') = Len(skipped) + 1

\* C23: the list of accepted polaroid positions is append-only and grows by
\* exactly one per image placed; the collision check of an image sees every
\* position accepted before it; and the position computed for an image that
\* is then skipped never enters the list.
C23_UsedPositionsAppendOnly ==
    /\ [][UsedPositionsStep]_vars
    /\ [](PolaroidPlanned => Len(plan.usedPositions) = Cardinality(Placed))

\* the loop has gone past a skipped image and accepted positions after it
C23_Witness ==
    /\ PolaroidPlanned
    /\ pc = "polaroid_loop"
    /\ 1 \in Skipped
    /\ i = 4
    /\ Len(plan.usedPositions) = 3

-----------------------------------------------------------------------------
(* Properties: the filmstrip decorations *)

FilmstripPlanned == layout.name = "filmstrip" /\ Len(compositeImages) > 0

\* the x of the perforations: 30, 60, ... below canvasWidth - 15
PerforationXs == {x \in 1..width : x % 30 = 0 /\ x < width - 15}

\* C24: in a filmstrip plan the band is the first layer, then come the
\* perforations, a top one and a bottom one for each x = 30, 60, ... below
\* canvasWidth - 15, and every image layer comes after all of them.
C24_DecorationsUnderneath ==
    FilmstripPlanned =>
        LET count == Cardinality(PerforationXs)
            stripHeight == (3 * height) \div 5
            stripTop == (height - stripHeight) \div 2
            perfHeight == (3 * stripHeight) \div 20
        IN  /\ Len(compositeImages) >= 1 + 2 * count
            /\ compositeImages[1].kind = "decoration"
            /\ compositeImages[1].left = 0 /\ compositeImages[1].top = stripTop
            /\ compositeImages[1].width = width
            /\ compositeImages[1].height = stripHeight
            /\ PerforationXs = {30 * j : j \in 1..count}
            /\ \A j \in 1..count :
                  /\ compositeImages[2 * j].kind = "decoration"
                  /\ compositeImages[2 * j].left = 30 * j
                  /\ compositeImages[2 * j].top = stripTop
                  /\ compositeImages[2 * j + 1].kind = "decoration"
                  /\ compositeImages[2 * j + 1].left = 30 * j
                  /\ compositeImages[2 * j + 1].top = stripTop + stripHeight - perfHeight
            /\ \A k \in 1..Len(compositeImages) :
                  k > 1 + 2 * count <=> compositeImages[k].kind = "image"

\* a filmstrip handed to the compositor with perforations and two or more
\* images above them
C24_Witness ==
    /\ FilmstripPlanned
    /\ composited
    /\ PerforationXs # {}
    /\ Cardinality(ImageLayers) >= 2
    /\ Len(compositeImages) = 1 + 2 * Cardinality(PerforationXs) + Cardinality(ImageLayers)

-----------------------------------------------------------------------------
(* Properties: the magazine regions *)

\* the image layers of the secondary images
SecondaryLayers == {k \in ImageLayers : compositeImages[k].index > 0}

\* C25: in a magazine plan the first image gets floor(0.55 * canvasWidth) x
\* floor(0.8 * canvasHeight), vertically centered; the other images sit in
\* min(2, remaining) columns and ceil(remaining / cols) rows to the right of
\* the featured region, and their grid stays within the vertical extent of
\* the featured region and within the canvas width.
C25_MagazineRegions ==
    layout.name = "magazine" =>
        \A k \in ImageLayers :
            LET placement == compositeImages[k]
                mainWidth == (11 * width) \div 20
                mainHeight == (4 * height) \div 5
                mainTop == (height - mainHeight) \div 2
                remaining == Len(imageFiles) - 1
                cols == IF remaining < 2 THEN remaining ELSE 2
                rows == (remaining + cols - 1) \div cols
                col(n) == (compositeImages[n].index - 1) % cols
                row(n) == (compositeImages[n].index - 1) \div cols
            IN  IF placement.index = 0
                THEN /\ placement.width = mainWidth
                     /\ placement.height = mainHeight
                     /\ placement.top = mainTop
                     /\ placement.left = spacing
                ELSE /\ row(k) < rows
                     /\ placement.left >= spacing + mainWidth
                     /\ placement.left + placement.width <= width
                     /\ placement.top >= mainTop
                     /\ placement.top + placement.height <= mainTop + mainHeight
                     /\ \A j \in SecondaryLayers :
                           /\ col(j) = col(k) => compositeImages[j].left = placement.left
                           /\ row(j) = row(k) => compositeImages[j].top = placement.top
                           /\ col(j) < col(k) =>
                                 compositeImages[j].left + compositeImages[j].width
                                     <= placement.left
                           /\ row(j) < row(k) =>
                                 compositeImages[j].top + compositeImages[j].height
                                     <= placement.top

-----------------------------------------------------------------------------
(* Properties: the color resolver *)

\* the token, lower-cased and trimmed, has one of the three forms: a named
\* color, # and three or six hex digits, or text holding rgb(r,g,b)
WellFormedColor(token) ==
    LET color == Trim(ToLowerCase(token))
    IN  \/ color \in DOMAIN namedColors
        \/ /\ Len(color) \in {4, 7}
           /\ color[1] = "#"
           /\ \A k \in 2..Len(color) : IsHexDigit(color[k])
        \/ RgbMatch(color) # {}

\* C26: the color resolver returns for every token three channels that are
\* integers in 0..255, and white for every token that has none of the forms
\* named color, 3- or 6-digit hex, rgb(r,g,b).
C26_ColorChannels ==
    backgroundColor # NoColor =>
        /\ backgroundColor.r \in 0..255
        /\ backgroundColor.g \in 0..255
        /\ backgroundColor.b \in 0..255
        /\ ~WellFormedColor(BackgroundOr(<<"#", "f", "f", "f">>)) =>
              backgroundColor = Color(255, 255, 255)

-----------------------------------------------------------------------------
(* Properties: the polaroid slots *)

\* C27: within one polaroid plan the fallback slots are pairwise distinct:
\* two positions that both came from the fallback, taken with different
\* numbers of positions accepted before, differ in x or in y.
C27_FallbackSlotsDistinct ==
    PolaroidPlanned =>
        \A j, k \in 1..Len(plan.usedPositions) :
            (j < k /\ plan.usedPositions[j].via = "fallback"
                   /\ plan.usedPositions[k].via = "fallback") =>
                \/ plan.usedPositions[j].x # plan.usedPositions[k].x
                \/ plan.usedPositions[j].y # plan.usedPositions[k].y

\* C28: every polaroid position accepted on the randomized path lies inside
\* the canvas, also on canvases where canvas - polaroidSize - 2 * margin is
\* zero or negative.
C28_RandomInsideCanvas ==
    PolaroidPlanned =>
        \A k \in 1..Len(plan.usedPositions) :
            LET position == plan.usedPositions[k]
            IN  position.via = "random" =>
                    /\ 0 <= position.x
                    /\ position.x + plan.polaroidSize <= width
                    /\ 0 <= position.y
                    /\ position.y + plan.polaroidSize <= height

\* a position sampled on a canvas whose sampling range runs backwards on x
\* and is empty on y
C28_Witness ==
    /\ PolaroidPlanned
    /\ width - plan.polaroidSize - 2 * PolaroidMargin < 0
    /\ height - plan.polaroidSize - 2 * PolaroidMargin = 0
    /\ \E k \in 1..Len(plan.usedPositions) :
          /\ plan.usedPositions[k].via = "random"
          /\ plan.usedPositions[k].x < PolaroidMargin
          /\ plan.usedPositions[k].y = PolaroidMargin

-----------------------------------------------------------------------------
(* Properties: slots and cells *)

Rectangle(left, top, w, h) == [left |-> left, top |-> top, width |-> w, height |-> h]

RectangleOf(layer) == Rectangle(layer.left, layer.top, layer.width, layer.height)

SlotLayouts == {"grid", "strip", "filmstrip", "magazine"}

\* the slot of input image `index`, computed from the index, the image count,
\* the canvas, the spacing and the options, and from nothing else
Slot(index) ==
    LET n == Len(imageFiles)
    IN  CASE layout.name = "grid" ->
                 LET cols == GridCols(n, plan.colsOption)
                     rows == GridRows(n, cols)
                     w == GridCellWidth(width, spacing, cols)
                     h == GridCellHeight(height, spacing, rows)
                 IN  Rectangle(GridLeft(index, cols, w, spacing),
                               GridTop(index, cols, h, spacing), w, h)
          [] layout.name = "strip" ->
                 LET w == StripImageWidth(plan.isVertical, width, spacing, n)
                     h == StripImageHeight(plan.isVertical, height, spacing, n)
                 IN  Rectangle(StripLeft(index, plan.isVertical, w, spacing),
                               StripTop(index, plan.isVertical, h, spacing), w, h)
          [] layout.name = "filmstrip" ->
                 Rectangle(FrameLeft(index, width, spacing, n), FrameTop(height),
                           FrameWidth(width, spacing, n),
                           FrameHeight(FrameAreaHeight(StripHeight(height))))
          [] layout.name = "magazine" /\ index = 0 ->
                 Rectangle(spacing, MainTop(height), MainWidth(width), MainHeight(height))
          [] layout.name = "magazine" /\ index > 0 ->
                 LET cols == SecondaryCols(n - 1)
                     w == SecondaryWidth(width, spacing, cols)
                     h == SecondaryHeight(height, spacing, SecondaryRows(n - 1))
                 IN  Rectangle(SecondaryLeft(index - 1, width, spacing, cols, w),
                               SecondaryTop(index - 1, height, spacing, cols, h), w, h)

\* C29: in the grid, strip, filmstrip and magazine layouts the slot of image
\* i depends only on i, the image count, the canvas, the spacing and the
\* options, never on which images fail: every image layer sits in the slot
\* of its own input index, no two layers belong to one index, and the slot
\* of a skipped image stays empty.
C29_SlotsIgnoreFailures ==
    layout.name \in SlotLayouts =>
        /\ \A k \in ImageLayers :
               RectangleOf(compositeImages[k]) = Slot(compositeImages[k].index)
        /\ \A k1, k2 \in ImageLayers :
               compositeImages[k1].index = compositeImages[k2].index => k1 = k2
        /\ \A j \in Skipped :
               \A k \in ImageLayers :
                   /\ compositeImages[k].index # j
                   /\ RectangleOf(compositeImages[k]) # Slot(j)

\* a finished grid loop in which images 0 and 2 were skipped and images 1 and
\* 3 were placed
C29_Witness ==
    /\ layout.name = "grid"
    /\ LoopEnded
    /\ {0, 2} \subseteq Skipped
    /\ {1, 3} \subseteq Placed

\* a grid or strip plan that passed its size check
CellsPlanned ==
    \/ GridPlanned /\ ~GridTooSmall(plan.cellWidth, plan.cellHeight)
    \/ StripPlanned /\ ~StripTooSmall(plan.imageWidth, plan.imageHeight)

\* the column and the row of the cell of image `index`
CellColumn(index) ==
    IF layout.name = "grid" THEN index % plan.cols
    ELSE IF plan.isVertical THEN 0 ELSE index

CellRow(index) ==
    IF layout.name = "grid" THEN index \div plan.cols
    ELSE IF plan.isVertical THEN index ELSE 0

\* the intervals [lo1, lo1 + len1) and [lo2, lo2 + len2) are at least gap apart
Apart(lo1, len1, lo2, len2, gap) ==
    lo1 + len1 + gap <= lo2 \/ lo2 + len2 + gap <= lo1

\* the rectangles share a pixel
Overlap(r1, r2) ==
    /\ r1.left < r2.left + r2.width /\ r2.left < r1.left + r1.width
    /\ r1.top < r2.top + r2.height /\ r2.top < r1.top + r1.height

\* C30: for spacing >= 0, the cells of a grid plan are pairwise disjoint and
\* so are the cells of a strip plan: no two image layers share a pixel, and,
\* when the cell size is one the codec can resize an image to (a positive
\* integer), the rectangles of two distinct images are at least spacing
\* pixels apart on the x axis when their columns differ and on the y axis
\* when their rows differ, and one of the two differs.
C30_CellsDisjoint ==
    (CellsPlanned /\ spacing >= 0) =>
        /\ \A k1, k2 \in ImageLayers :
               k1 # k2 =>
                   ~Overlap(RectangleOf(compositeImages[k1]),
                            RectangleOf(compositeImages[k2]))
        /\ (PositiveInt(Slot(0).width) /\ PositiveInt(Slot(0).height)) =>
               \A a, b \in 0..(Len(imageFiles) - 1) :
                   a # b =>
                       LET ra == Slot(a)
                           rb == Slot(b)
                       IN  /\ CellColumn(a) # CellColumn(b) \/ CellRow(a) # CellRow(b)
                           /\ CellColumn(a) # CellColumn(b) =>
                                  Apart(ra.left, ra.width, rb.left, rb.width, spacing)
                           /\ CellRow(a) # CellRow(b) =>
                                  Apart(ra.top, ra.height, rb.top, rb.height, spacing)
                           /\ ~Overlap(ra, rb)

\* a finished grid of two columns and at least two rows with a positive
\* spacing, every image placed
C30_Witness ==
    /\ CellsPlanned
    /\ layout.name = "grid"
    /\ LoopEnded
    /\ spacing > 0
    /\ plan.cols = 2
    /\ plan.rows >= 2
    /\ Skipped = {}

=============================================================================
